---- MODULE Spec2Model ----
(***************************************************************************)
(* Model of the systemd service controller of nikola-jokic/sudoservice:    *)
(* src/systemd/mod.rs (Config, Systemd, Status) together with the parts of *)
(* the unit-file serializer it writes to disk.                             *)
(*                                                                         *)
(* Text that the code inspects character by character (command output,     *)
(* the unit name) is a tuple of one-character strings, so that trim() and  *)
(* contains() are computed as the code computes them.  Lines of the        *)
(* rendered unit file are TLA+ strings.                                    *)
(***************************************************************************)
EXTENDS Integers, Sequences, FiniteSets, TLC

(***************************************************************************)
(* Bounds of the model.                                                    *)
(***************************************************************************)
\* the stdout of `systemctl is-active` is a concatenation of at most this many pieces
MaxActivePieces == 3
\* the stdout of `systemctl list-unit-files` is a concatenation of at most this many pieces
MaxListPieces == 2

\* longest list put in a list field
MaxListLen == 2

\* how far beyond the accepted interval the sampled niceness runs
NiceMargin == 6

(***************************************************************************)
(* Program constants.                                                      *)
(***************************************************************************)
\* const SERVICE_FILE_PERMISSIONS: u32 = 0o644
SERVICE_FILE_PERMISSIONS == 420

\* exec.rs: nice < -20 || nice > 19
NICE_MIN == -20

NICE_MAX == 19

\* exec.rs: score < -1000 || score > 1000
OOM_SCORE_MIN == -1000

OOM_SCORE_MAX == 1000

\* string literals of the code, as character tuples
S_active ==
    <<"a", "c", "t", "i", "v", "e">>
S_inactive ==
    <<"i", "n", "a", "c", "t", "i", "v", "e">>
S_activating ==
    <<"a", "c", "t", "i", "v", "a", "t", "i", "n", "g">>
S_failed ==
    <<"f", "a", "i", "l", "e", "d">>
S_unknown ==
    <<"u", "n", "k", "n", "o", "w", "n">>
S_foo ==
    <<"f", "o", "o">>
S_dot_service ==
    <<".", "s", "e", "r", "v", "i", "c", "e">>
S_t ==
    <<"-", "t">>
S_service ==
    <<"s", "e", "r", "v", "i", "c", "e">>

(***************************************************************************)
(* Option<T>: None is the empty tuple, Some(v) the one-element tuple.      *)
(***************************************************************************)
None == <<>>
Some(v) == <<v>>

(***************************************************************************)
(* str::trim(): strips leading and trailing whitespace.                    *)
(***************************************************************************)
IsWhitespace(ch) == ch \in {" ", "\n", "\t", "\r"}

RECURSIVE TrimStart(_)
TrimStart(s) ==
    IF s # <<>> /\ IsWhitespace(Head(s)) THEN TrimStart(Tail(s)) ELSE s

RECURSIVE TrimEnd(_)
TrimEnd(s) ==
    IF s # <<>> /\ IsWhitespace(s[Len(s)])
    THEN TrimEnd(SubSeq(s, 1, Len(s) - 1))
    ELSE s

Trim(s) == TrimEnd(TrimStart(s))

\* variant of Contains: the whole text is compared with the needle
Contains_equal(hay, needle) == hay = needle

(***************************************************************************)
(* str::contains(needle): needle occurs as a contiguous substring.         *)
(***************************************************************************)
Contains(hay, needle) ==
    \E i \in 1..(Len(hay) + 1) :
        /\ i + Len(needle) - 1 <= Len(hay)
        /\ SubSeq(hay, i, i + Len(needle) - 1) = needle

(***************************************************************************)
(* Field formatters (macros.rs).  A rendered section is a sequence of      *)
(* lines; every writeln! appends one line.                                 *)
(***************************************************************************)
RECURSIVE Join(_, _)
Join(values, sep) ==
    IF values = <<>> THEN ""
    ELSE IF Len(values) = 1 THEN values[1]
    ELSE values[1] \o sep \o Join(Tail(values), sep)

\* variant of write_option: an unset field writes a line with no value
write_option_unset(field, key) ==
    IF field # None THEN <<key \o "=" \o field[1]>> ELSE <<key \o "=">>

write_option(field, key) ==
    IF field # None THEN <<key \o "=" \o field[1]>> ELSE <<>>

\* variant of write_vec: no is_empty() test
write_vec_empty_line(field, key) ==
    IF field # None
    THEN <<key \o "=" \o Join(field[1], " ")>>
    ELSE <<>>

write_vec(field, key) ==
    IF field # None /\ field[1] # <<>>
    THEN <<key \o "=" \o Join(field[1], " ")>>
    ELSE <<>>

\* variant of write_vec_multi: the values are written last to first
write_vec_multi_reversed(field, key) ==
    IF field # None
    THEN [i \in 1..Len(field[1]) |-> key \o "=" \o field[1][Len(field[1]) + 1 - i]]
    ELSE <<>>

\* write_vec_multi!: one line per value
write_vec_multi(field, key) ==
    IF field # None
    THEN [i \in 1..Len(field[1]) |-> key \o "=" \o field[1][i]]
    ELSE <<>>

\* variant of write_bool: the value is written as Rust prints a bool
write_bool_true_false(field, key) ==
    IF field # None
    THEN <<key \o "=" \o (IF field[1] THEN "true" ELSE "false")>>
    ELSE <<>>

\* write_bool!
write_bool(field, key) ==
    IF field # None
    THEN <<key \o "=" \o (IF field[1] THEN "yes" ELSE "no")>>
    ELSE <<>>

(***************************************************************************)
(* Values.  A String or a path is a tuple of characters, a number an       *)
(* integer, an enum value the name of its variant.  Fmt is what "{}" makes *)
(* of a value of the given type.                                           *)
(***************************************************************************)
\* sample texts, as character tuples
S_a ==
    <<"a">>
S_b ==
    <<"b">>
S_demo ==
    <<"d", "e", "m", "o">>
S_bin_a ==
    <<"/", "b", "i", "n", "/", "a">>
S_bin_b ==
    <<"/", "b", "i", "n", "/", "b">>
S_multi_user_target ==
    <<"m", "u", "l", "t", "i", "-", "u", "s", "e", "r", ".", "t", "a", "r", "g", "e", "t">>
S_root ==
    <<"r", "o", "o", "t">>
S_FOO ==
    <<"F", "O", "O">>
S_FOO_bar ==
    <<"F", "O", "O", "=", "b", "a", "r">>
S_eq_bar ==
    <<"=", "b", "a", "r">>
S_A_b_c ==
    <<"A", "=", "b", "=", "c">>
S_MKNOD ==
    <<"M", "K", "N", "O", "D">>
S_CAP_MKNOD ==
    <<"C", "A", "P", "_", "M", "K", "N", "O", "D">>
S_CAP_ ==
    <<"C", "A", "P", "_">>

S_http_ ==
    <<"h", "t", "t", "p", ":", "/", "/">>

S_https_ ==
    <<"h", "t", "t", "p", "s", ":", "/", "/">>

S_file_ ==
    <<"f", "i", "l", "e", ":">>

S_info_ ==
    <<"i", "n", "f", "o", ":">>

S_man_ ==
    <<"m", "a", "n", ":">>

S_ftp_x ==
    <<"f", "t", "p", ":", "/", "/", "x">>

S_http_x ==
    <<"h", "t", "t", "p", ":", "/", "/", "x">>

S_https_x ==
    <<"h", "t", "t", "p", "s", ":", "/", "/", "x">>

S_file_x ==
    <<"f", "i", "l", "e", ":", "x">>

S_info_x ==
    <<"i", "n", "f", "o", ":", "x">>

S_man_systemd ==
    <<"m", "a", "n", ":", "s", "y", "s", "t", "e", "m", "d", "(", "1", ")">>

S_httpx ==
    <<"h", "t", "t", "p", "x">>

S_a_b ==
    <<"a", " ", "b">>

S_a_1 ==
    <<"a", "_", "1", "-", "B">>

RECURSIVE Concat(_)
Concat(s) ==
    IF s = <<>> THEN "" ELSE Head(s) \o Concat(Tail(s))

(***************************************************************************)
(* The closed vocabularies: impl fmt::Display of each enum, variant by     *)
(* variant.                                                                *)
(***************************************************************************)
ServiceTypeTokens ==
    [Simple |-> "simple",
     Exec |-> "exec",
     Forking |-> "forking",
     Oneshot |-> "oneshot",
     Dbus |-> "dbus",
     Notify |-> "notify",
     NotifyReload |-> "notify-reload",
     Idle |-> "idle"]

ExitTypeTokens ==
    [Main |-> "main",
     Cgroup |-> "cgroup"]

RestartTypeTokens ==
    [No |-> "no",
     OnSuccess |-> "on-success",
     OnFailure |-> "on-failure",
     OnAbnormal |-> "on-abnormal",
     OnWatchdog |-> "on-watchdog",
     OnAbort |-> "on-abort",
     Always |-> "always"]

RestartModeTokens ==
    [Normal |-> "normal",
     Direct |-> "direct",
     Debug |-> "debug"]

NotifyAccessTokens ==
    [None |-> "none",
     Main |-> "main",
     Exec |-> "exec",
     All |-> "all"]

TimeoutFailureModeTokens ==
    [Terminate |-> "terminate",
     Abort |-> "abort",
     Kill |-> "kill"]

OomPolicyTokens ==
    [Continue |-> "continue",
     Stop |-> "stop",
     Kill |-> "kill"]

CollectModeTokens ==
    [Inactive |-> "inactive",
     InactiveOrFailed |-> "inactive-or-failed"]

JobModeTokens ==
    [Fail |-> "fail",
     Replace |-> "replace",
     ReplaceIrreversibly |-> "replace-irreversibly",
     Isolate |-> "isolate",
     Flush |-> "flush",
     IgnoreDependencies |-> "ignore-dependencies",
     IgnoreRequirements |-> "ignore-requirements"]

ActionTokens ==
    [None |-> "none",
     Reboot |-> "reboot",
     RebootForce |-> "reboot-force",
     RebootImmediate |-> "reboot-immediate",
     Poweroff |-> "poweroff",
     PoweroffForce |-> "poweroff-force",
     PoweroffImmediate |-> "poweroff-immediate",
     Exit |-> "exit",
     ExitForce |-> "exit-force",
     SoftReboot |-> "soft-reboot",
     SoftRebootForce |-> "soft-reboot-force",
     Kexec |-> "kexec",
     KexecForce |-> "kexec-force",
     Halt |-> "halt",
     HaltForce |-> "halt-force",
     HaltImmediate |-> "halt-immediate"]

SecurityTechTokens ==
    [Selinux |-> "selinux",
     Apparmor |-> "apparmor",
     Tomoyo |-> "tomoyo",
     Smack |-> "smack",
     Ima |-> "ima",
     Audit |-> "audit",
     UefiSecureboot |-> "uefi-secureboot",
     Tpm2 |-> "tpm2",
     Cvm |-> "cvm",
     MeasuredUki |-> "measured-uki"]

ArchitectureTokens ==
    [X86 |-> "x86",
     X8664 |-> "x86-64",
     Ppc |-> "ppc",
     PpcLe |-> "ppc-le",
     Ppc64 |-> "ppc64",
     Ppc64Le |-> "ppc64-le",
     Ia64 |-> "ia64",
     Parisc |-> "parisc",
     Parisc64 |-> "parisc64",
     S390 |-> "s390",
     S390x |-> "s390x",
     Sparc |-> "sparc",
     Sparc64 |-> "sparc64",
     Mips |-> "mips",
     MipsLe |-> "mips-le",
     Mips64 |-> "mips64",
     Mips64Le |-> "mips64-le",
     Alpha |-> "alpha",
     Arm |-> "arm",
     ArmBe |-> "arm-be",
     Arm64 |-> "arm64",
     Arm64Be |-> "arm64-be",
     Sh |-> "sh",
     Sh64 |-> "sh64",
     M68k |-> "m68k",
     Tilegx |-> "tilegx",
     Cris |-> "cris",
     Arc |-> "arc",
     ArcBe |-> "arc-be",
     Native |-> "native"]

VirtualizationTokens ==
    [Vm |-> "vm",
     Container |-> "container",
     Qemu |-> "qemu",
     Kvm |-> "kvm",
     Amazon |-> "amazon",
     Zvm |-> "zvm",
     Vmware |-> "vmware",
     Microsoft |-> "microsoft",
     Oracle |-> "oracle",
     Powervm |-> "powervm",
     Xen |-> "xen",
     Bochs |-> "bochs",
     Uml |-> "uml",
     Bhyve |-> "bhyve",
     Qnx |-> "qnx",
     Apple |-> "apple",
     Sre |-> "sre",
     Openvz |-> "openvz",
     Lxc |-> "lxc",
     LxcLibvirt |-> "lxc-libvirt",
     SystemdNspawn |-> "systemd-nspawn",
     Docker |-> "docker",
     Podman |-> "podman",
     Rkt |-> "rkt",
     Wsl |-> "wsl",
     Proot |-> "proot",
     Pouch |-> "pouch",
     Acrn |-> "acrn",
     PrivateUsers |-> "private-users"]

EnumTypes ==
    {"ServiceType", "ExitType", "RestartType", "RestartMode", "NotifyAccess", "TimeoutFailureMode", "OomPolicy", "CollectMode", "JobMode", "Action", "SecurityTech", "Architecture", "Virtualization"}

EnumTokens(ty) ==
    CASE ty = "ServiceType" -> ServiceTypeTokens
      [] ty = "ExitType" -> ExitTypeTokens
      [] ty = "RestartType" -> RestartTypeTokens
      [] ty = "RestartMode" -> RestartModeTokens
      [] ty = "NotifyAccess" -> NotifyAccessTokens
      [] ty = "TimeoutFailureMode" -> TimeoutFailureModeTokens
      [] ty = "OomPolicy" -> OomPolicyTokens
      [] ty = "CollectMode" -> CollectModeTokens
      [] ty = "JobMode" -> JobModeTokens
      [] ty = "Action" -> ActionTokens
      [] ty = "SecurityTech" -> SecurityTechTokens
      [] ty = "Architecture" -> ArchitectureTokens
      [] ty = "Virtualization" -> VirtualizationTokens


Fmt(ty, v) ==
    CASE ty \in {"String", "PathBuf"} -> Concat(v)
      [] ty \in {"u8", "u32", "u64", "i32"} -> ToString(v)
      [] ty \in EnumTypes -> EnumTokens(ty)[v]

\* Option::map and Iterator::map of the formatting over a field's value
FmtOption(ty, field) ==
    IF field = None THEN None ELSE Some(Fmt(ty, field[1]))

FmtVec(ty, field) ==
    IF field = None THEN None
    ELSE Some([i \in 1..Len(field[1]) |-> Fmt(ty, field[1][i])])

(***************************************************************************)
(* The Display impls of the sections: the formatter calls in source order. *)
(* An entry names the struct field, the key written, the formatter         *)
(* (option, vec, bool: the macros; scalar: an inline `if let Some` with    *)
(* one writeln!; lines: an inline loop with one writeln! per element) and  *)
(* the field's value type.                                                 *)
(***************************************************************************)
UnitFields ==
    <<[field |-> "description", key |-> "Description", rule |-> "option", ty |-> "String"],
      [field |-> "documentation", key |-> "Documentation", rule |-> "vec", ty |-> "String"],
      [field |-> "wants", key |-> "Wants", rule |-> "vec", ty |-> "String"],
      [field |-> "requires", key |-> "Requires", rule |-> "vec", ty |-> "String"],
      [field |-> "requisite", key |-> "Requisite", rule |-> "vec", ty |-> "String"],
      [field |-> "binds_to", key |-> "BindsTo", rule |-> "vec", ty |-> "String"],
      [field |-> "part_of", key |-> "PartOf", rule |-> "vec", ty |-> "String"],
      [field |-> "upholds", key |-> "Upholds", rule |-> "vec", ty |-> "String"],
      [field |-> "conflicts", key |-> "Conflicts", rule |-> "vec", ty |-> "String"],
      [field |-> "before", key |-> "Before", rule |-> "vec", ty |-> "String"],
      [field |-> "after", key |-> "After", rule |-> "vec", ty |-> "String"],
      [field |-> "on_failure", key |-> "OnFailure", rule |-> "vec", ty |-> "String"],
      [field |-> "on_success", key |-> "OnSuccess", rule |-> "vec", ty |-> "String"],
      [field |-> "propagates_reload_to", key |-> "PropagatesReloadTo", rule |-> "vec", ty |-> "String"],
      [field |-> "reload_propagated_from", key |-> "ReloadPropagatedFrom", rule |-> "vec", ty |-> "String"],
      [field |-> "propagates_stop_to", key |-> "PropagatesStopTo", rule |-> "vec", ty |-> "String"],
      [field |-> "stop_propagated_from", key |-> "StopPropagatedFrom", rule |-> "vec", ty |-> "String"],
      [field |-> "joins_namespace_of", key |-> "JoinsNamespaceOf", rule |-> "vec", ty |-> "String"],
      [field |-> "requires_mounts_for", key |-> "RequiresMountsFor", rule |-> "vec", ty |-> "String"],
      [field |-> "wants_mounts_for", key |-> "WantsMountsFor", rule |-> "vec", ty |-> "String"],
      [field |-> "on_success_job_mode", key |-> "OnSuccessJobMode", rule |-> "option", ty |-> "JobMode"],
      [field |-> "on_failure_job_mode", key |-> "OnFailureJobMode", rule |-> "option", ty |-> "JobMode"],
      [field |-> "ignore_on_isolate", key |-> "IgnoreOnIsolate", rule |-> "bool", ty |-> "bool"],
      [field |-> "stop_when_unneeded", key |-> "StopWhenUnneeded", rule |-> "bool", ty |-> "bool"],
      [field |-> "refuse_manual_start", key |-> "RefuseManualStart", rule |-> "bool", ty |-> "bool"],
      [field |-> "refuse_manual_stop", key |-> "RefuseManualStop", rule |-> "bool", ty |-> "bool"],
      [field |-> "allow_isolate", key |-> "AllowIsolate", rule |-> "bool", ty |-> "bool"],
      [field |-> "default_dependencies", key |-> "DefaultDependencies", rule |-> "bool", ty |-> "bool"],
      [field |-> "survive_final_kill_signal", key |-> "SurviveFinalKillSignal", rule |-> "bool", ty |-> "bool"],
      [field |-> "collect_mode", key |-> "CollectMode", rule |-> "option", ty |-> "CollectMode"],
      [field |-> "failure_action", key |-> "FailureAction", rule |-> "option", ty |-> "Action"],
      [field |-> "success_action", key |-> "SuccessAction", rule |-> "option", ty |-> "Action"],
      [field |-> "failure_action_exit_status", key |-> "FailureActionExitStatus", rule |-> "scalar", ty |-> "u8"],
      [field |-> "success_action_exit_status", key |-> "SuccessActionExitStatus", rule |-> "scalar", ty |-> "u8"],
      [field |-> "job_timeout_sec", key |-> "JobTimeoutSec", rule |-> "scalar", ty |-> "u64"],
      [field |-> "job_running_timeout_sec", key |-> "JobRunningTimeoutSec", rule |-> "scalar", ty |-> "u64"],
      [field |-> "job_timeout_action", key |-> "JobTimeoutAction", rule |-> "option", ty |-> "Action"],
      [field |-> "job_timeout_reboot_argument", key |-> "JobTimeoutRebootArgument", rule |-> "option", ty |-> "String"],
      [field |-> "start_limit_interval_sec", key |-> "StartLimitIntervalSec", rule |-> "scalar", ty |-> "u64"],
      [field |-> "start_limit_burst", key |-> "StartLimitBurst", rule |-> "scalar", ty |-> "u32"],
      [field |-> "start_limit_action", key |-> "StartLimitAction", rule |-> "option", ty |-> "Action"],
      [field |-> "reboot_argument", key |-> "RebootArgument", rule |-> "option", ty |-> "String"],
      [field |-> "source_path", key |-> "SourcePath", rule |-> "scalar", ty |-> "PathBuf"],
      [field |-> "condition_architecture", key |-> "ConditionArchitecture", rule |-> "option", ty |-> "Architecture"],
      [field |-> "condition_firmware", key |-> "ConditionFirmware", rule |-> "option", ty |-> "String"],
      [field |-> "condition_virtualization", key |-> "ConditionVirtualization", rule |-> "option", ty |-> "Virtualization"],
      [field |-> "condition_host", key |-> "ConditionHost", rule |-> "option", ty |-> "String"],
      [field |-> "condition_kernel_command_line", key |-> "ConditionKernelCommandLine", rule |-> "option", ty |-> "String"],
      [field |-> "condition_kernel_version", key |-> "ConditionKernelVersion", rule |-> "option", ty |-> "String"],
      [field |-> "condition_credential", key |-> "ConditionCredential", rule |-> "option", ty |-> "String"],
      [field |-> "condition_environment", key |-> "ConditionEnvironment", rule |-> "option", ty |-> "String"],
      [field |-> "condition_security", key |-> "ConditionSecurity", rule |-> "vec", ty |-> "SecurityTech"],
      [field |-> "condition_capability", key |-> "ConditionCapability", rule |-> "vec", ty |-> "String"],
      [field |-> "condition_ac_power", key |-> "ConditionACPower", rule |-> "bool", ty |-> "bool"],
      [field |-> "condition_needs_update", key |-> "ConditionNeedsUpdate", rule |-> "option", ty |-> "String"],
      [field |-> "condition_first_boot", key |-> "ConditionFirstBoot", rule |-> "bool", ty |-> "bool"],
      [field |-> "condition_path_exists", key |-> "ConditionPathExists", rule |-> "option", ty |-> "String"],
      [field |-> "condition_path_exists_glob", key |-> "ConditionPathExistsGlob", rule |-> "option", ty |-> "String"],
      [field |-> "condition_path_is_directory", key |-> "ConditionPathIsDirectory", rule |-> "option", ty |-> "String"],
      [field |-> "condition_path_is_symbolic_link", key |-> "ConditionPathIsSymbolicLink", rule |-> "option", ty |-> "String"],
      [field |-> "condition_path_is_mount_point", key |-> "ConditionPathIsMountPoint", rule |-> "option", ty |-> "String"],
      [field |-> "condition_path_is_read_write", key |-> "ConditionPathIsReadWrite", rule |-> "option", ty |-> "String"],
      [field |-> "condition_path_is_encrypted", key |-> "ConditionPathIsEncrypted", rule |-> "option", ty |-> "String"],
      [field |-> "condition_directory_not_empty", key |-> "ConditionDirectoryNotEmpty", rule |-> "option", ty |-> "String"],
      [field |-> "condition_file_not_empty", key |-> "ConditionFileNotEmpty", rule |-> "option", ty |-> "String"],
      [field |-> "condition_file_is_executable", key |-> "ConditionFileIsExecutable", rule |-> "option", ty |-> "String"],
      [field |-> "condition_user", key |-> "ConditionUser", rule |-> "option", ty |-> "String"],
      [field |-> "condition_group", key |-> "ConditionGroup", rule |-> "option", ty |-> "String"],
      [field |-> "condition_control_group_controller", key |-> "ConditionControlGroupController", rule |-> "vec", ty |-> "String"],
      [field |-> "condition_memory", key |-> "ConditionMemory", rule |-> "option", ty |-> "String"],
      [field |-> "condition_cpus", key |-> "ConditionCPUs", rule |-> "option", ty |-> "String"],
      [field |-> "condition_cpu_feature", key |-> "ConditionCPUFeature", rule |-> "vec", ty |-> "String"],
      [field |-> "condition_os_release", key |-> "ConditionOSRelease", rule |-> "option", ty |-> "String"],
      [field |-> "condition_memory_pressure", key |-> "ConditionMemoryPressure", rule |-> "option", ty |-> "String"],
      [field |-> "condition_cpu_pressure", key |-> "ConditionCPUPressure", rule |-> "option", ty |-> "String"],
      [field |-> "condition_io_pressure", key |-> "ConditionIOPressure", rule |-> "option", ty |-> "String"],
      [field |-> "assert_architecture", key |-> "AssertArchitecture", rule |-> "option", ty |-> "Architecture"],
      [field |-> "assert_firmware", key |-> "AssertFirmware", rule |-> "option", ty |-> "String"],
      [field |-> "assert_virtualization", key |-> "AssertVirtualization", rule |-> "option", ty |-> "Virtualization"],
      [field |-> "assert_host", key |-> "AssertHost", rule |-> "option", ty |-> "String"],
      [field |-> "assert_kernel_command_line", key |-> "AssertKernelCommandLine", rule |-> "option", ty |-> "String"],
      [field |-> "assert_kernel_version", key |-> "AssertKernelVersion", rule |-> "option", ty |-> "String"],
      [field |-> "assert_credential", key |-> "AssertCredential", rule |-> "option", ty |-> "String"],
      [field |-> "assert_environment", key |-> "AssertEnvironment", rule |-> "option", ty |-> "String"],
      [field |-> "assert_security", key |-> "AssertSecurity", rule |-> "vec", ty |-> "SecurityTech"],
      [field |-> "assert_capability", key |-> "AssertCapability", rule |-> "vec", ty |-> "String"],
      [field |-> "assert_ac_power", key |-> "AssertACPower", rule |-> "bool", ty |-> "bool"],
      [field |-> "assert_needs_update", key |-> "AssertNeedsUpdate", rule |-> "option", ty |-> "String"],
      [field |-> "assert_first_boot", key |-> "AssertFirstBoot", rule |-> "bool", ty |-> "bool"],
      [field |-> "assert_path_exists", key |-> "AssertPathExists", rule |-> "option", ty |-> "String"],
      [field |-> "assert_path_exists_glob", key |-> "AssertPathExistsGlob", rule |-> "option", ty |-> "String"],
      [field |-> "assert_path_is_directory", key |-> "AssertPathIsDirectory", rule |-> "option", ty |-> "String"],
      [field |-> "assert_path_is_symbolic_link", key |-> "AssertPathIsSymbolicLink", rule |-> "option", ty |-> "String"],
      [field |-> "assert_path_is_mount_point", key |-> "AssertPathIsMountPoint", rule |-> "option", ty |-> "String"],
      [field |-> "assert_path_is_read_write", key |-> "AssertPathIsReadWrite", rule |-> "option", ty |-> "String"],
      [field |-> "assert_path_is_encrypted", key |-> "AssertPathIsEncrypted", rule |-> "option", ty |-> "String"],
      [field |-> "assert_directory_not_empty", key |-> "AssertDirectoryNotEmpty", rule |-> "option", ty |-> "String"],
      [field |-> "assert_file_not_empty", key |-> "AssertFileNotEmpty", rule |-> "option", ty |-> "String"],
      [field |-> "assert_file_is_executable", key |-> "AssertFileIsExecutable", rule |-> "option", ty |-> "String"],
      [field |-> "assert_user", key |-> "AssertUser", rule |-> "option", ty |-> "String"],
      [field |-> "assert_group", key |-> "AssertGroup", rule |-> "option", ty |-> "String"],
      [field |-> "assert_control_group_controller", key |-> "AssertControlGroupController", rule |-> "vec", ty |-> "String"],
      [field |-> "assert_memory", key |-> "AssertMemory", rule |-> "option", ty |-> "String"],
      [field |-> "assert_cpus", key |-> "AssertCPUs", rule |-> "option", ty |-> "String"],
      [field |-> "assert_cpu_feature", key |-> "AssertCPUFeature", rule |-> "vec", ty |-> "String"],
      [field |-> "assert_os_release", key |-> "AssertOSRelease", rule |-> "option", ty |-> "String"],
      [field |-> "assert_memory_pressure", key |-> "AssertMemoryPressure", rule |-> "option", ty |-> "String"],
      [field |-> "assert_cpu_pressure", key |-> "AssertCPUPressure", rule |-> "option", ty |-> "String"],
      [field |-> "assert_io_pressure", key |-> "AssertIOPressure", rule |-> "option", ty |-> "String"]>>

\* the fields of struct Unit
UnitFieldNames ==
    {"description", "documentation", "wants", "requires",
     "requisite", "binds_to", "part_of", "upholds",
     "conflicts", "before", "after", "on_failure",
     "on_success", "propagates_reload_to", "reload_propagated_from", "propagates_stop_to",
     "stop_propagated_from", "joins_namespace_of", "requires_mounts_for", "wants_mounts_for",
     "on_success_job_mode", "on_failure_job_mode", "ignore_on_isolate", "stop_when_unneeded",
     "refuse_manual_start", "refuse_manual_stop", "allow_isolate", "default_dependencies",
     "survive_final_kill_signal", "collect_mode", "failure_action", "success_action",
     "failure_action_exit_status", "success_action_exit_status", "job_timeout_sec", "job_running_timeout_sec",
     "job_timeout_action", "job_timeout_reboot_argument", "start_limit_interval_sec", "start_limit_burst",
     "start_limit_action", "reboot_argument", "source_path", "condition_architecture",
     "condition_firmware", "condition_virtualization", "condition_host", "condition_kernel_command_line",
     "condition_kernel_version", "condition_credential", "condition_environment", "condition_security",
     "condition_capability", "condition_ac_power", "condition_needs_update", "condition_first_boot",
     "condition_path_exists", "condition_path_exists_glob", "condition_path_is_directory", "condition_path_is_symbolic_link",
     "condition_path_is_mount_point", "condition_path_is_read_write", "condition_path_is_encrypted", "condition_directory_not_empty",
     "condition_file_not_empty", "condition_file_is_executable", "condition_user", "condition_group",
     "condition_control_group_controller", "condition_memory", "condition_cpus", "condition_cpu_feature",
     "condition_os_release", "condition_memory_pressure", "condition_cpu_pressure", "condition_io_pressure",
     "assert_architecture", "assert_firmware", "assert_virtualization", "assert_host",
     "assert_kernel_command_line", "assert_kernel_version", "assert_credential", "assert_environment",
     "assert_security", "assert_capability", "assert_ac_power", "assert_needs_update",
     "assert_first_boot", "assert_path_exists", "assert_path_exists_glob", "assert_path_is_directory",
     "assert_path_is_symbolic_link", "assert_path_is_mount_point", "assert_path_is_read_write", "assert_path_is_encrypted",
     "assert_directory_not_empty", "assert_file_not_empty", "assert_file_is_executable", "assert_user",
     "assert_group", "assert_control_group_controller", "assert_memory", "assert_cpus",
     "assert_cpu_feature", "assert_os_release", "assert_memory_pressure", "assert_cpu_pressure",
     "assert_io_pressure"}

ServiceFields ==
    <<[field |-> "service_type", key |-> "Type", rule |-> "option", ty |-> "ServiceType"],
      [field |-> "exit_type", key |-> "ExitType", rule |-> "option", ty |-> "ExitType"],
      [field |-> "remain_after_exit", key |-> "RemainAfterExit", rule |-> "bool", ty |-> "bool"],
      [field |-> "guess_main_pid", key |-> "GuessMainPID", rule |-> "bool", ty |-> "bool"],
      [field |-> "pid_file", key |-> "PIDFile", rule |-> "scalar", ty |-> "PathBuf"],
      [field |-> "bus_name", key |-> "BusName", rule |-> "option", ty |-> "String"],
      [field |-> "exec_condition", key |-> "ExecCondition", rule |-> "vec", ty |-> "String"],
      [field |-> "exec_start_pre", key |-> "ExecStartPre", rule |-> "vec", ty |-> "String"],
      [field |-> "exec_start", key |-> "ExecStart", rule |-> "vec", ty |-> "String"],
      [field |-> "exec_start_post", key |-> "ExecStartPost", rule |-> "vec", ty |-> "String"],
      [field |-> "exec_reload", key |-> "ExecReload", rule |-> "vec", ty |-> "String"],
      [field |-> "exec_stop", key |-> "ExecStop", rule |-> "vec", ty |-> "String"],
      [field |-> "exec_stop_post", key |-> "ExecStopPost", rule |-> "vec", ty |-> "String"],
      [field |-> "restart", key |-> "Restart", rule |-> "option", ty |-> "RestartType"],
      [field |-> "restart_mode", key |-> "RestartMode", rule |-> "option", ty |-> "RestartMode"],
      [field |-> "restart_sec", key |-> "RestartSec", rule |-> "scalar", ty |-> "u64"],
      [field |-> "restart_steps", key |-> "RestartSteps", rule |-> "scalar", ty |-> "u32"],
      [field |-> "restart_max_delay_sec", key |-> "RestartMaxDelaySec", rule |-> "option", ty |-> "String"],
      [field |-> "success_exit_status", key |-> "SuccessExitStatus", rule |-> "vec", ty |-> "String"],
      [field |-> "restart_prevent_exit_status", key |-> "RestartPreventExitStatus", rule |-> "vec", ty |-> "String"],
      [field |-> "restart_force_exit_status", key |-> "RestartForceExitStatus", rule |-> "vec", ty |-> "String"],
      [field |-> "timeout_start_sec", key |-> "TimeoutStartSec", rule |-> "option", ty |-> "String"],
      [field |-> "timeout_stop_sec", key |-> "TimeoutStopSec", rule |-> "option", ty |-> "String"],
      [field |-> "timeout_abort_sec", key |-> "TimeoutAbortSec", rule |-> "option", ty |-> "String"],
      [field |-> "timeout_sec", key |-> "TimeoutSec", rule |-> "option", ty |-> "String"],
      [field |-> "timeout_start_failure_mode", key |-> "TimeoutStartFailureMode", rule |-> "option", ty |-> "TimeoutFailureMode"],
      [field |-> "timeout_stop_failure_mode", key |-> "TimeoutStopFailureMode", rule |-> "option", ty |-> "TimeoutFailureMode"],
      [field |-> "runtime_max_sec", key |-> "RuntimeMaxSec", rule |-> "option", ty |-> "String"],
      [field |-> "runtime_randomized_extra_sec", key |-> "RuntimeRandomizedExtraSec", rule |-> "option", ty |-> "String"],
      [field |-> "watchdog_sec", key |-> "WatchdogSec", rule |-> "option", ty |-> "String"],
      [field |-> "root_directory_start_only", key |-> "RootDirectoryStartOnly", rule |-> "bool", ty |-> "bool"],
      [field |-> "non_blocking", key |-> "NonBlocking", rule |-> "bool", ty |-> "bool"],
      [field |-> "notify_access", key |-> "NotifyAccess", rule |-> "option", ty |-> "NotifyAccess"],
      [field |-> "sockets", key |-> "Sockets", rule |-> "vec", ty |-> "String"],
      [field |-> "file_descriptor_store_max", key |-> "FileDescriptorStoreMax", rule |-> "scalar", ty |-> "u32"],
      [field |-> "file_descriptor_store_preserve", key |-> "FileDescriptorStorePreserve", rule |-> "option", ty |-> "String"],
      [field |-> "usb_function_descriptors", key |-> "USBFunctionDescriptors", rule |-> "scalar", ty |-> "PathBuf"],
      [field |-> "usb_function_strings", key |-> "USBFunctionStrings", rule |-> "scalar", ty |-> "PathBuf"],
      [field |-> "oom_policy", key |-> "OOMPolicy", rule |-> "option", ty |-> "OomPolicy"],
      [field |-> "open_file", key |-> "OpenFile", rule |-> "vec", ty |-> "String"],
      [field |-> "reload_signal", key |-> "ReloadSignal", rule |-> "option", ty |-> "String"]>>

\* the fields of struct Service
ServiceFieldNames ==
    {"service_type", "exit_type", "remain_after_exit", "guess_main_pid",
     "pid_file", "bus_name", "exec_start", "exec_start_pre",
     "exec_start_post", "exec_condition", "exec_reload", "exec_stop",
     "exec_stop_post", "restart_sec", "restart_steps", "restart_max_delay_sec",
     "timeout_start_sec", "timeout_stop_sec", "timeout_abort_sec", "timeout_sec",
     "timeout_start_failure_mode", "timeout_stop_failure_mode", "runtime_max_sec", "runtime_randomized_extra_sec",
     "watchdog_sec", "restart", "restart_mode", "success_exit_status",
     "restart_prevent_exit_status", "restart_force_exit_status", "root_directory_start_only", "non_blocking",
     "notify_access", "sockets", "file_descriptor_store_max", "file_descriptor_store_preserve",
     "usb_function_descriptors", "usb_function_strings", "oom_policy", "open_file",
     "reload_signal", "exec"}

ExecFields ==
    <<[field |-> "working_directory", key |-> "WorkingDirectory", rule |-> "scalar", ty |-> "PathBuf"],
      [field |-> "root_directory", key |-> "RootDirectory", rule |-> "scalar", ty |-> "PathBuf"],
      [field |-> "root_image", key |-> "RootImage", rule |-> "scalar", ty |-> "PathBuf"],
      [field |-> "root_image_options", key |-> "RootImageOptions", rule |-> "vec", ty |-> "String"],
      [field |-> "root_verity", key |-> "RootVerity", rule |-> "scalar", ty |-> "PathBuf"],
      [field |-> "root_hash", key |-> "RootHash", rule |-> "option", ty |-> "String"],
      [field |-> "root_hash_signature", key |-> "RootHashSignature", rule |-> "scalar", ty |-> "PathBuf"],
      [field |-> "root_hash_signature_key", key |-> "RootHashSignature", rule |-> "scalar", ty |-> "PathBuf"],
      [field |-> "root_hash_signature_pcr_private_key", key |-> "RootHashSignature", rule |-> "scalar", ty |-> "PathBuf"],
      [field |-> "root_hash_signature_pcr_public_key", key |-> "RootHashSignature", rule |-> "scalar", ty |-> "PathBuf"],
      [field |-> "root_ephemeral", key |-> "RootEphemeral", rule |-> "bool", ty |-> "bool"],
      [field |-> "user", key |-> "User", rule |-> "option", ty |-> "String"],
      [field |-> "group", key |-> "Group", rule |-> "option", ty |-> "String"],
      [field |-> "supplementary_groups", key |-> "SupplementaryGroups", rule |-> "vec", ty |-> "String"],
      [field |-> "pam_name", key |-> "PAMName", rule |-> "option", ty |-> "String"],
      [field |-> "environment", key |-> "Environment", rule |-> "vec", ty |-> "String"],
      [field |-> "environment_file", key |-> "EnvironmentFile", rule |-> "lines", ty |-> "PathBuf"],
      [field |-> "pass_environment", key |-> "PassEnvironment", rule |-> "vec", ty |-> "String"],
      [field |-> "unset_environment", key |-> "UnsetEnvironment", rule |-> "vec", ty |-> "String"],
      [field |-> "limit_cpu", key |-> "LimitCPU", rule |-> "option", ty |-> "String"],
      [field |-> "limit_fsize", key |-> "LimitFSIZE", rule |-> "option", ty |-> "String"],
      [field |-> "no_new_privileges", key |-> "NoNewPrivileges", rule |-> "bool", ty |-> "bool"],
      [field |-> "private_tmp", key |-> "PrivateTmp", rule |-> "bool", ty |-> "bool"],
      [field |-> "private_devices", key |-> "PrivateDevices", rule |-> "bool", ty |-> "bool"],
      [field |-> "protect_kernel_tunables", key |-> "ProtectKernelTunables", rule |-> "bool", ty |-> "bool"],
      [field |-> "protect_kernel_modules", key |-> "ProtectKernelModules", rule |-> "bool", ty |-> "bool"],
      [field |-> "protect_control_groups", key |-> "ProtectControlGroups", rule |-> "bool", ty |-> "bool"],
      [field |-> "capability_bounding_set", key |-> "CapabilityBoundingSet", rule |-> "vec", ty |-> "String"],
      [field |-> "ambient_capabilities", key |-> "AmbientCapabilities", rule |-> "vec", ty |-> "String"],
      [field |-> "nice", key |-> "Nice", rule |-> "scalar", ty |-> "i32"],
      [field |-> "oom_score_adjust", key |-> "OOMScoreAdjust", rule |-> "scalar", ty |-> "i32"],
      [field |-> "read_write_paths", key |-> "ReadWritePaths", rule |-> "lines", ty |-> "PathBuf"],
      [field |-> "read_only_paths", key |-> "ReadOnlyPaths", rule |-> "lines", ty |-> "PathBuf"],
      [field |-> "inaccessible_paths", key |-> "InaccessiblePaths", rule |-> "lines", ty |-> "PathBuf"],
      [field |-> "private_network", key |-> "PrivateNetwork", rule |-> "bool", ty |-> "bool"],
      [field |-> "network_namespace_path", key |-> "NetworkNamespacePath", rule |-> "scalar", ty |-> "PathBuf"]>>

\* the fields of struct Exec
ExecFieldNames ==
    {"working_directory", "root_directory", "root_image", "root_image_options",
     "root_verity", "root_hash", "root_hash_signature", "root_hash_signature_key",
     "root_hash_signature_pcr_private_key", "root_hash_signature_pcr_public_key", "root_ephemeral", "user",
     "group", "supplementary_groups", "pam_name", "environment",
     "environment_file", "pass_environment", "unset_environment", "limit_cpu",
     "limit_fsize", "no_new_privileges", "private_tmp", "private_devices",
     "protect_kernel_tunables", "protect_kernel_modules", "protect_control_groups", "capability_bounding_set",
     "ambient_capabilities", "nice", "oom_score_adjust", "read_write_paths",
     "read_only_paths", "inaccessible_paths", "private_network", "network_namespace_path"}

InstallFields ==
    <<[field |-> "alias", key |-> "Alias", rule |-> "vec", ty |-> "String"],
      [field |-> "wanted_by", key |-> "WantedBy", rule |-> "vec", ty |-> "String"],
      [field |-> "required_by", key |-> "RequiredBy", rule |-> "vec", ty |-> "String"],
      [field |-> "upheld_by", key |-> "UpheldBy", rule |-> "vec", ty |-> "String"],
      [field |-> "also", key |-> "Also", rule |-> "vec", ty |-> "String"],
      [field |-> "default_instance", key |-> "DefaultInstance", rule |-> "option", ty |-> "String"]>>

\* the fields of struct Install
InstallFieldNames ==
    {"alias", "wanted_by", "required_by", "upheld_by",
     "also", "default_instance"}


\* the lines one formatter call appends.  The inline loops of impl Display for
\* Exec (rule lines) are the body of write_vec_multi! written out; no Display
\* impl invokes that macro itself.
WriteField(e, rec) ==
    CASE e.rule = "option" -> write_option(FmtOption(e.ty, rec[e.field]), e.key)
      [] e.rule = "scalar" -> write_option(FmtOption(e.ty, rec[e.field]), e.key)
      [] e.rule = "vec" -> write_vec(FmtVec(e.ty, rec[e.field]), e.key)
      [] e.rule = "lines" -> write_vec_multi(FmtVec(e.ty, rec[e.field]), e.key)
      [] e.rule = "bool" -> write_bool(rec[e.field], e.key)

\* the concatenation of parts[lo..hi], in order
RECURSIVE Flatten(_, _, _)
Flatten(parts, lo, hi) ==
    IF lo > hi THEN <<>>
    ELSE IF lo = hi THEN parts[lo]
    ELSE LET mid == (lo + hi) \div 2
         IN Flatten(parts, lo, mid) \o Flatten(parts, mid + 1, hi)

\* the lines the formatter calls of a Display impl append, in order
FieldLines(table, rec) ==
    Flatten([i \in 1..Len(table) |-> WriteField(table[i], rec)], 1, Len(table))

(***************************************************************************)
(* Section models and the assembled document.                              *)
(***************************************************************************)
UnitDisplay(unit) ==
    <<"[Unit]">> \o FieldLines(UnitFields, unit)

\* Service.exec is a field of the struct that the Display impl does not write
ServiceDisplay(service) ==
    <<"[Service]">> \o FieldLines(ServiceFields, service)

\* impl Display for Exec writes no header
ExecDisplay(exec) ==
    FieldLines(ExecFields, exec)

InstallDisplay(install) ==
    <<"[Install]">> \o FieldLines(InstallFields, install)

\* variant of ConfigDisplay: a section with no field set is left out
ConfigDisplay_skip_empty(cfg) ==
    (IF UnitDisplay(cfg.unit) = <<"[Unit]">> THEN <<>> ELSE UnitDisplay(cfg.unit))
        \o (IF ServiceDisplay(cfg.service) = <<"[Service]">>
            THEN <<>> ELSE ServiceDisplay(cfg.service))
        \o (IF InstallDisplay(cfg.install) = <<"[Install]">>
            THEN <<>> ELSE InstallDisplay(cfg.install))

ConfigDisplay(cfg) ==
    UnitDisplay(cfg.unit) \o ServiceDisplay(cfg.service) \o InstallDisplay(cfg.install)

\* Config::unit_name: format!("{}.service", self.name)
unit_name(cfg) == cfg.name \o S_dot_service

\* Systemd::config_path: the path is determined by the unit name; the model
\* keeps the one file at that path in the variable file.
config_path(cfg) == <<"/etc/systemd/system", unit_name(cfg)>>

\* #[derive(Default)]: every field None
DefaultUnit == [f \in UnitFieldNames |-> None]

DefaultService == [f \in ServiceFieldNames |-> None]

DefaultExec == [f \in ExecFieldNames |-> None]

DefaultInstall == [f \in InstallFieldNames |-> None]

\* the configurations a Systemd is constructed with
DefaultConfig ==
    [name |-> S_foo,
     unit |-> DefaultUnit,
     service |-> DefaultService,
     install |-> DefaultInstall]

SampleConfig ==
    [name |-> S_foo,
     unit |-> [DefaultUnit EXCEPT !.description = Some(S_demo)],
     service |-> [DefaultService EXCEPT !.exec_start = Some(<<S_bin_a, S_bin_b>>)],
     install |-> [DefaultInstall EXCEPT !.wanted_by = Some(<<S_multi_user_target>>)]]

\* a configuration that no validate() accepts: a documentation URI of another
\* scheme, a niceness out of range, an instance name with a space
InvalidConfig ==
    [name |-> S_foo,
     unit |-> [DefaultUnit EXCEPT !.documentation = Some(<<S_ftp_x>>)],
     service |-> [DefaultService EXCEPT
                     !.exec = Some([DefaultExec EXCEPT !.nice = Some(NICE_MAX + NiceMargin)])],
     install |-> [DefaultInstall EXCEPT !.default_instance = Some(S_a_b)]]

Configs == {DefaultConfig, SampleConfig, InvalidConfig}

(***************************************************************************)
(* The values a caller may put in a field.  Lists run over every sequence  *)
(* of sample elements up to MaxListLen, duplicates and the empty list      *)
(* included; the fields that validate() reads get elements on both sides   *)
(* of each test.                                                           *)
(***************************************************************************)
RECURSIVE Lists(_, _)
Lists(elems, n) ==
    IF n = 0 THEN {<<>>}
    ELSE LET shorter == Lists(elems, n - 1)
         IN  shorter \cup {Append(l, x) : l \in shorter, x \in elems}

ElemSamples(e) ==
    CASE e.field = "environment" -> {S_FOO, S_FOO_bar, S_eq_bar, S_A_b_c}
      [] e.field \in {"pass_environment", "unset_environment"} -> {S_FOO, S_FOO_bar}
      [] e.field \in {"capability_bounding_set", "ambient_capabilities",
                      "condition_capability", "assert_capability"} ->
             {S_CAP_MKNOD, S_MKNOD}
      [] e.field \in {"supplementary_groups", "root_image_options"} -> {S_a, <<>>}
      [] e.field = "documentation" ->
             {S_ftp_x, S_http_x, S_https_x, S_file_x, S_info_x, S_man_systemd, S_httpx}
      [] e.ty = "SecurityTech" -> {"Selinux", "Tpm2"}
      [] OTHER -> {S_a, S_b}

NiceSamples == (NICE_MIN - NiceMargin)..(NICE_MAX + NiceMargin)

OomScoreSamples ==
    {OOM_SCORE_MIN - 1, OOM_SCORE_MIN, 0, OOM_SCORE_MAX, OOM_SCORE_MAX + 1}

ValueSamples(e) ==
    CASE e.rule = "bool" -> BOOLEAN
      [] e.rule \in {"vec", "lines"} -> Lists(ElemSamples(e), MaxListLen)
      [] e.field = "nice" -> NiceSamples
      [] e.field = "oom_score_adjust" -> OomScoreSamples
      [] e.field = "default_instance" -> {S_a, S_a_1, S_a_b, <<>>}
      [] e.ty \in {"u8", "u32", "u64", "i32"} -> {0, 7}
      [] e.ty \in EnumTypes -> DOMAIN EnumTokens(e.ty)
      [] OTHER -> {S_a}

\* one value of a field that validate() accepts
TypicalValue(e) ==
    CASE e.rule = "bool" -> TRUE
      [] e.field = "environment" -> <<S_FOO_bar>>
      [] e.field \in {"pass_environment", "unset_environment"} -> <<S_FOO>>
      [] e.field \in {"capability_bounding_set", "ambient_capabilities",
                      "condition_capability", "assert_capability"} ->
             <<S_CAP_MKNOD>>
      [] e.field = "documentation" -> <<S_https_x, S_man_systemd>>
      [] e.ty = "SecurityTech" -> <<"Selinux", "Tpm2">>
      [] e.rule \in {"vec", "lines"} -> <<S_a, S_b>>
      [] e.ty \in {"u8", "u32", "u64", "i32"} -> 7
      [] e.ty \in EnumTypes -> CHOOSE v \in DOMAIN EnumTokens(e.ty) : TRUE
      [] OTHER -> S_a

\* the sections with exactly one field of the table set
OneField(default, table) ==
    UNION {{[default EXCEPT ![table[i].field] = Some(v)] : v \in ValueSamples(table[i])} :
              i \in 1..Len(table)}

\* the section with every field of the table set
AllFields(default, table) ==
    [f \in DOMAIN default |->
        IF \E i \in 1..Len(table) : table[i].field = f
        THEN Some(TypicalValue(table[CHOOSE i \in 1..Len(table) : table[i].field = f]))
        ELSE default[f]]

\* two of the fields Unit::validate reads set together, each valid or not
UnitPairs ==
    {[DefaultUnit EXCEPT !.documentation = Some(d), !.condition_capability = Some(k)] :
        d \in {<<S_https_x>>, <<S_ftp_x>>}, k \in {<<S_CAP_MKNOD>>, <<S_MKNOD>>}}
    \cup
    {[DefaultUnit EXCEPT !.condition_capability = Some(k), !.assert_capability = Some(a)] :
        k \in {<<S_CAP_MKNOD>>, <<S_MKNOD>>}, a \in {<<S_CAP_MKNOD>>, <<S_MKNOD>>}}

UnitSamples ==
    {DefaultUnit, AllFields(DefaultUnit, UnitFields)}
        \cup OneField(DefaultUnit, UnitFields) \cup UnitPairs

InstallSamples ==
    {DefaultInstall, AllFields(DefaultInstall, InstallFields)}
        \cup OneField(DefaultInstall, InstallFields)

\* a niceness and an environment list set together, each valid or not
ExecPairs ==
    {[DefaultExec EXCEPT !.nice = Some(n), !.environment = Some(l)] :
        n \in {NICE_MAX, NICE_MAX + NiceMargin},
        l \in {<<S_FOO_bar>>, <<S_FOO>>, <<S_A_b_c>>}}
    \cup
    {[DefaultExec EXCEPT !.capability_bounding_set = Some(b),
                         !.ambient_capabilities = Some(a)] :
        b \in {<<S_CAP_MKNOD>>, <<S_MKNOD>>}, a \in {<<S_CAP_MKNOD>>, <<S_MKNOD>>}}

ExecSamples ==
    {DefaultExec, AllFields(DefaultExec, ExecFields)}
        \cup OneField(DefaultExec, ExecFields) \cup ExecPairs

\* Service.exec is None or Some(exec)
ServiceSamples ==
    {DefaultService, AllFields(DefaultService, ServiceFields)}
        \cup OneField(DefaultService, ServiceFields)
        \cup {[s EXCEPT !.exec = Some(x)] :
                 s \in {DefaultService, AllFields(DefaultService, ServiceFields)},
                 x \in ExecSamples}

\* the configurations whose sections are rendered and validated: one section
\* varies while the others are default, and every mix of empty and full sections
SectionConfigs ==
    Configs
        \cup {[DefaultConfig EXCEPT !.unit = u] : u \in UnitSamples}
        \cup {[DefaultConfig EXCEPT !.service = s] : s \in ServiceSamples}
        \cup {[DefaultConfig EXCEPT !.install = i] : i \in InstallSamples}
        \cup {[DefaultConfig EXCEPT !.unit = u, !.service = s, !.install = i] :
                 u \in {DefaultUnit, AllFields(DefaultUnit, UnitFields)},
                 s \in {DefaultService, AllFields(DefaultService, ServiceFields),
                        [DefaultService EXCEPT
                            !.exec = Some(AllFields(DefaultExec, ExecFields))]},
                 i \in {DefaultInstall, AllFields(DefaultInstall, InstallFields)}}

(***************************************************************************)
(* The world outside the process: the unit file on disk and the manager's  *)
(* enablement of the unit; and the calls in progress.                      *)
(*                                                                         *)
(* The control executable is a black box: each invocation may fail to      *)
(* spawn, or exit zero or non-zero, and prints any of the stdout texts     *)
(* below whatever its exit status.  enable and disable change the          *)
(* enablement when they exit zero and leave it alone otherwise.            *)
(***************************************************************************)
VARIABLES
    config,     \* Systemd.config, fixed at construction
    file,       \* the file at config_path(): [exists, content, mode]
    enabled,    \* whether the manager has the unit enabled
    pc,         \* per caller: the step of the operation it is at
    op,         \* per caller: the operation it runs
    result,     \* per caller: the value the operation returned
    log,        \* per caller: the external commands this call has run, in order
    file0,      \* per caller: the file as it was when the call began
    enabled0    \* per caller: the enablement as it was when the call began

vars == <<config, file, enabled, pc, op, result, log, file0, enabled0>>

Callers == {"c1", "c2", "c3"}

Operations == {"install", "uninstall", "start", "stop", "restart", "status"}

\* the operations of impl Service for Systemd (src/systemd.rs)
TraitOperations ==
    {"trait_install", "trait_uninstall", "trait_start", "trait_stop",
     "trait_restart", "trait_status"}

\* the operations on sections
SectionOperations ==
    {"render_config", "render_unit", "render_service", "render_install",
     "render_exec", "write_vec_multi", "validate_exec",
     "validate_unit", "validate_service", "validate_install"}

NoFile == [exists |-> FALSE, content |-> <<>>, mode |-> 0]

\* a unit file left at the path by somebody else
ForeignFile ==
    [exists |-> TRUE, content |-> <<"[Unit]", "Description=other">>, mode |-> 384]

\* File::create opens with mode 0o666 masked by the process umask
\* (0o022 gives 0o644 = 420, 0o077 gives 0o600 = 384)
CreatedModes == {420, 384}

\* how an external command can end: Command::output() fails to spawn it, or it
\* runs and exits with a zero or a non-zero status
Exits == {"zero", "nonzero"}
Outcomes == Exits \cup {"nospawn"}

(***************************************************************************)
(* Results: Ok(()) / Ok(Status) and the variants of error::Error.  An      *)
(* error carries the step that raised it, as the code's messages do.       *)
(***************************************************************************)
NoResult == [kind |-> "none", value |-> ""]
Ok(v) == [kind |-> "Ok", value |-> v]
Err(kind, at) == [kind |-> kind, value |-> at]

IsErr(r) == r.kind \in {"IoError", "FmtError", "ValidationError", "CommandError"}

(***************************************************************************)
(* The stdout texts the control executable may print.                      *)
(***************************************************************************)
RECURSIVE Texts(_, _)
Texts(pieces, n) ==
    IF n = 0 THEN {<<>>}
    ELSE LET shorter == Texts(pieces, n - 1)
         IN  shorter \cup {t \o p : t \in shorter, p \in pieces}

ActivePieces ==
    {S_active, S_inactive, S_activating, S_failed, S_unknown, <<" ">>, <<"\n">>}

ListPieces ==
    {S_foo \o S_dot_service, S_foo, S_dot_service, <<"x">>, <<"\n">>}

IsActiveStdouts == Texts(ActivePieces, MaxActivePieces)

ListStdouts == Texts(ListPieces, MaxListPieces)

\* what start, stop and restart may print
ControlStdouts == {<<>>, S_failed, S_inactive}

(***************************************************************************)
(* Initial states: a constructed Systemd, no call in progress; the file    *)
(* absent or already present, the unit enabled or not.                     *)
(***************************************************************************)
Init ==
    /\ config \in Configs
    /\ file \in {NoFile, ForeignFile}
    /\ enabled \in BOOLEAN
    /\ pc = [c \in Callers |-> "idle"]
    /\ op = [c \in Callers |-> "none"]
    /\ result = [c \in Callers |-> NoResult]
    /\ log = [c \in Callers |-> <<>>]
    /\ file0 = [c \in Callers |-> NoFile]
    /\ enabled0 = [c \in Callers |-> FALSE]

(***************************************************************************)
(* Helpers of the actions.                                                 *)
(***************************************************************************)
FirstStep(o) ==
    CASE o = "install"   -> "install_exists"
      [] o = "uninstall" -> "uninstall_disable"
      [] o = "start"     -> "start_cmd"
      [] o = "stop"      -> "stop_cmd"
      [] o = "restart"   -> "restart_cmd"
      [] o = "status"    -> "status_is_active"
      [] o \in SectionOperations -> o
      [] o = "trait_install"   -> "trait_install_exists"
      [] o = "trait_uninstall" -> "trait_uninstall_disable"
      [] o = "trait_start"     -> "trait_start_cmd"
      [] o = "trait_stop"      -> "trait_stop_cmd"
      [] o = "trait_restart"   -> "trait_restart_cmd"
      [] o = "trait_status"    -> "trait_status_is_active"

Goto(c, step) == pc' = [pc EXCEPT ![c] = step]

Return(c, r) ==
    /\ pc' = [pc EXCEPT ![c] = "done"]
    /\ result' = [result EXCEPT ![c] = r]

\* Command::new(SYSTEMCTL).arg(cmd).arg(..).output(): one entry of the log
Invoke(c, cmd, args, exit, out) ==
    log' = [log EXCEPT ![c] =
                Append(@, [cmd |-> cmd, args |-> args, exit |-> exit, out |-> out])]

\* a caller enters an operation
Begin(c, o) ==
    /\ pc[c] = "idle"
    /\ pc' = [pc EXCEPT ![c] = FirstStep(o)]
    /\ op' = [op EXCEPT ![c] = o]
    /\ result' = [result EXCEPT ![c] = NoResult]
    /\ log' = [log EXCEPT ![c] = <<>>]
    /\ file0' = [file0 EXCEPT ![c] = file]
    /\ enabled0' = [enabled0 EXCEPT ![c] = enabled]
    /\ UNCHANGED <<config, file, enabled>>

\* single-threaded use (spec section 5): a call begins when no other is in progress
Call(c, o) ==
    /\ \A d \in Callers : pc[d] = "idle"
    /\ Begin(c, o)

\* the caller takes the returned value; the call is over
Finish(c) ==
    /\ pc[c] = "done"
    /\ pc' = [pc EXCEPT ![c] = "idle"]
    /\ op' = [op EXCEPT ![c] = "none"]
    /\ result' = [result EXCEPT ![c] = NoResult]
    /\ log' = [log EXCEPT ![c] = <<>>]
    /\ file0' = [file0 EXCEPT ![c] = NoFile]
    /\ enabled0' = [enabled0 EXCEPT ![c] = FALSE]
    /\ UNCHANGED <<config, file, enabled>>

(***************************************************************************)
(* Exec::validate: the checks in source order; the first failure returns.  *)
(* The Err(String) is modelled by the name of the check that raised it.    *)
(***************************************************************************)
\* str::starts_with
StartsWith(s, prefix) ==
    Len(s) >= Len(prefix) /\ SubSeq(s, 1, Len(prefix)) = prefix

\* env_var.splitn(2, '=').collect()[0]: the text before the first '='
SplitnFirst(s) ==
    LET at == {i \in 1..Len(s) : s[i] = "="}
    IN  IF at = {} THEN s
        ELSE SubSeq(s, 1, (CHOOSE i \in at : \A j \in at : i <= j) - 1)

\* variant of EnvironmentError: the key before the separator is not looked at
EnvironmentError_any_key(env_var) ==
    IF ~Contains(env_var, <<"=">>) THEN "environment_format"
    ELSE ""

\* the body of the loop over self.environment: "" when the entry passes
EnvironmentError(env_var) ==
    IF ~Contains(env_var, <<"=">>) THEN "environment_format"
    ELSE IF SplitnFirst(env_var) = <<>> THEN "environment_key"
    ELSE ""

NoSeparatorError(var) ==
    IF Contains(var, <<"=">>) THEN "separator" ELSE ""

\* variant of CapabilityError: any non-empty token passes
CapabilityError_nonempty(cap) ==
    IF cap = <<>> THEN "capability" ELSE ""

\* if !cap.starts_with("CAP_") { return Err(..) }
CapabilityError(cap) ==
    IF ~StartsWith(cap, S_CAP_) THEN "capability" ELSE ""

EmptyError(s) ==
    IF s = <<>> THEN "empty" ELSE ""

\* if let Some(ref list) = field { for x in list { .. } }: the elements visited
Elements(field) ==
    IF field = None THEN <<>> ELSE field[1]

\* for x in list { if .. { return Err(..) } }: of the errors of the elements in
\* list order ("" for an element that passes), the first one; "" when all pass
FirstError(errors) ==
    LET bad == {i \in 1..Len(errors) : errors[i] # ""}
    IN  IF bad = {} THEN ""
        ELSE errors[CHOOSE i \in bad : \A j \in bad : i <= j]

\* variant of NiceError: the upper limit is one too high
NiceError_off_by_one(nice) ==
    IF nice # None /\ (nice[1] < NICE_MIN \/ nice[1] > NICE_MAX + 1) THEN "nice" ELSE ""

\* if let Some(nice) = self.nice { if nice < -20 || nice > 19 { return Err(..) } }
NiceError(nice) ==
    IF nice # None /\ (nice[1] < NICE_MIN \/ nice[1] > NICE_MAX) THEN "nice" ELSE ""

OomScoreError(score) ==
    IF score # None /\ (score[1] < OOM_SCORE_MIN \/ score[1] > OOM_SCORE_MAX)
    THEN "oom_score_adjust" ELSE ""

\* the checks of Exec::validate, in order
ExecChecks(exec) ==
    LET environment == Elements(exec.environment)
        pass_environment == Elements(exec.pass_environment)
        unset_environment == Elements(exec.unset_environment)
        capability_bounding_set == Elements(exec.capability_bounding_set)
        ambient_capabilities == Elements(exec.ambient_capabilities)
        supplementary_groups == Elements(exec.supplementary_groups)
        root_image_options == Elements(exec.root_image_options)
    IN  <<NiceError(exec.nice),
          OomScoreError(exec.oom_score_adjust),
          FirstError([k \in 1..Len(environment) |-> EnvironmentError(environment[k])]),
          FirstError([k \in 1..Len(pass_environment) |->
                         NoSeparatorError(pass_environment[k])]),
          FirstError([k \in 1..Len(unset_environment) |->
                         NoSeparatorError(unset_environment[k])]),
          FirstError([k \in 1..Len(capability_bounding_set) |->
                         CapabilityError(capability_bounding_set[k])]),
          FirstError([k \in 1..Len(ambient_capabilities) |->
                         CapabilityError(ambient_capabilities[k])]),
          FirstError([k \in 1..Len(supplementary_groups) |->
                         EmptyError(supplementary_groups[k])]),
          FirstError([k \in 1..Len(root_image_options) |->
                         EmptyError(root_image_options[k])])>>

ExecValidate(exec) ==
    LET checks == ExecChecks(exec)
        failed == {i \in 1..Len(checks) : checks[i] # ""}
    IN  IF failed = {} THEN Ok("unit")
        ELSE Err("String", checks[CHOOSE i \in failed : \A j \in failed : i <= j])

(***************************************************************************)
(* Unit::validate, Service::validate and Install::validate.                *)
(***************************************************************************)
\* variant of DocumentationError: man: is not among the accepted schemes
DocumentationError_no_man(doc) ==
    IF /\ ~StartsWith(doc, S_http_)
       /\ ~StartsWith(doc, S_https_)
       /\ ~StartsWith(doc, S_file_)
       /\ ~StartsWith(doc, S_info_)
    THEN "documentation" ELSE ""

\* the body of the loop over self.documentation
DocumentationError(doc) ==
    IF /\ ~StartsWith(doc, S_http_)
       /\ ~StartsWith(doc, S_https_)
       /\ ~StartsWith(doc, S_file_)
       /\ ~StartsWith(doc, S_info_)
       /\ ~StartsWith(doc, S_man_)
    THEN "documentation" ELSE ""

\* the checks of Unit::validate, in order
UnitChecks(unit) ==
    LET documentation == Elements(unit.documentation)
        condition_capability == Elements(unit.condition_capability)
        assert_capability == Elements(unit.assert_capability)
    IN  <<FirstError([k \in 1..Len(documentation) |->
                         DocumentationError(documentation[k])]),
          FirstError([k \in 1..Len(condition_capability) |->
                         CapabilityError(condition_capability[k])]),
          FirstError([k \in 1..Len(assert_capability) |->
                         CapabilityError(assert_capability[k])])>>

UnitValidate(unit) ==
    LET checks == UnitChecks(unit)
        failed == {i \in 1..Len(checks) : checks[i] # ""}
    IN  IF failed = {} THEN Ok("unit")
        ELSE Err("String", checks[CHOOSE i \in failed : \A j \in failed : i <= j])

\* Service::validate: Ok(()) whatever the fields hold; self.exec is not validated
ServiceValidate(service) == Ok("unit")

\* char::is_alphanumeric, on the characters of the sample texts
IsAlphanumeric(ch) ==
    ch \in {"a", "b", "c", "A", "B", "C", "0", "1", "2"}

\* Install::validate: default_instance non-empty, of alphanumerics, '_' and '-'
InstallValidate(install) ==
    IF install.default_instance = None THEN Ok("unit")
    ELSE LET instance == install.default_instance[1]
         IN  IF instance = <<>> THEN Err("String", "default_instance_empty")
             ELSE IF ~(\A i \in 1..Len(instance) :
                          IsAlphanumeric(instance[i]) \/ instance[i] \in {"_", "-"})
             THEN Err("String", "default_instance_characters")
             ELSE Ok("unit")

(***************************************************************************)
(* Systemd::install                                                        *)
(***************************************************************************)
\* variant of InstallExists: the existence check is dropped, the file is overwritten
InstallExists_overwrite(c) ==
    /\ pc[c] = "install_exists"
    /\ Goto(c, "install_create")
    /\ UNCHANGED <<config, file, enabled, op, result, log, file0, enabled0>>

\* variant of InstallExists: the configuration is validated before it is written
InstallExists_validates(c) ==
    /\ pc[c] = "install_exists"
    /\ IF file.exists
       THEN Return(c, Err("ValidationError", "exists"))
       ELSE IF \/ UnitValidate(config.unit).kind # "Ok"
               \/ InstallValidate(config.install).kind # "Ok"
               \/ (config.service.exec # None
                      /\ ExecValidate(config.service.exec[1]).kind # "Ok")
       THEN Return(c, Err("ValidationError", "validate"))
       ELSE Goto(c, "install_create") /\ UNCHANGED result
    /\ UNCHANGED <<config, file, enabled, op, log, file0, enabled0>>

\* if dst.exists() { return Err(ValidationError) }
InstallExists(c) ==
    /\ pc[c] = "install_exists"
    /\ IF file.exists
       THEN Return(c, Err("ValidationError", "exists"))
       ELSE Goto(c, "install_create") /\ UNCHANGED result
    /\ UNCHANGED <<config, file, enabled, op, log, file0, enabled0>>

\* variant of InstallCreate: the file is opened with create_new, so creating a file
\* that exists fails with the error of the existence check
InstallCreate_exclusive(c) ==
    /\ pc[c] = "install_create"
    /\ \/ /\ Return(c, Err("IoError", "create"))
          /\ UNCHANGED file
       \/ /\ file.exists
          /\ Return(c, Err("ValidationError", "exists"))
          /\ UNCHANGED file
       \/ /\ ~file.exists
          /\ \E m \in CreatedModes :
                file' = [exists |-> TRUE, content |-> <<>>, mode |-> m]
          /\ Goto(c, "install_write")
          /\ UNCHANGED result
    /\ UNCHANGED <<config, enabled, op, log, file0, enabled0>>

\* let mut file = File::create(&dst)?;   creates the file, or truncates it
InstallCreate(c) ==
    /\ pc[c] = "install_create"
    /\ \/ /\ Return(c, Err("IoError", "create"))
          /\ UNCHANGED file
       \/ /\ \E m \in CreatedModes :
                file' = [exists |-> TRUE, content |-> <<>>,
                         mode |-> IF file.exists THEN file.mode ELSE m]
          /\ Goto(c, "install_write")
          /\ UNCHANGED result
    /\ UNCHANGED <<config, enabled, op, log, file0, enabled0>>

\* file.write_all(format!("{}", self.config).as_bytes())?;
\* a failed write leaves a proper prefix of the document
InstallWrite(c) ==
    /\ pc[c] = "install_write"
    /\ LET doc == ConfigDisplay(config)
       IN  \/ /\ \E k \in 0..(Len(doc) - 1) :
                    file' = [file EXCEPT !.exists = TRUE, !.content = SubSeq(doc, 1, k)]
              /\ Return(c, Err("IoError", "write"))
           \/ /\ file' = [file EXCEPT !.exists = TRUE, !.content = doc]
              /\ Goto(c, "install_chmod")
              /\ UNCHANGED result
    /\ UNCHANGED <<config, enabled, op, log, file0, enabled0>>

\* variant of InstallChmod: the mode the file was created with is kept
InstallChmod_skip(c) ==
    /\ pc[c] = "install_chmod"
    /\ \/ /\ Return(c, Err("IoError", "set_permissions"))
       \/ /\ file.exists
          /\ Goto(c, "install_enable")
          /\ UNCHANGED result
    /\ UNCHANGED <<config, file, enabled, op, log, file0, enabled0>>

\* std::fs::set_permissions(&dst, Permissions::from_mode(SERVICE_FILE_PERMISSIONS))?;
InstallChmod(c) ==
    /\ pc[c] = "install_chmod"
    /\ \/ /\ Return(c, Err("IoError", "set_permissions"))
          /\ UNCHANGED file
       \/ /\ file.exists
          /\ file' = [file EXCEPT !.mode = SERVICE_FILE_PERMISSIONS]
          /\ Goto(c, "install_enable")
          /\ UNCHANGED result
    /\ UNCHANGED <<config, enabled, op, log, file0, enabled0>>

\* variant of InstallEnable: the exit status of enable is not looked at
InstallEnable_ignore_exit(c) ==
    /\ pc[c] = "install_enable"
    /\ \E exit \in Outcomes :
          /\ Invoke(c, "enable", <<unit_name(config)>>, exit, <<>>)
          /\ CASE exit = "nospawn" ->
                    Return(c, Err("IoError", "enable")) /\ UNCHANGED enabled
               [] exit = "nonzero" ->
                    Goto(c, "install_reload") /\ UNCHANGED <<enabled, result>>
               [] exit = "zero" ->
                    Goto(c, "install_reload") /\ enabled' = TRUE /\ UNCHANGED result
    /\ UNCHANGED <<config, file, op, file0, enabled0>>

\* variant of InstallEnable: a failed enable removes the file it has just written
InstallEnable_rollback(c) ==
    /\ pc[c] = "install_enable"
    /\ \E exit \in Outcomes :
          /\ Invoke(c, "enable", <<unit_name(config)>>, exit, <<>>)
          /\ CASE exit = "nospawn" ->
                    /\ Return(c, Err("IoError", "enable"))
                    /\ file' = NoFile
                    /\ UNCHANGED enabled
               [] exit = "nonzero" ->
                    /\ Return(c, Err("CommandError", "enable"))
                    /\ file' = NoFile
                    /\ UNCHANGED enabled
               [] exit = "zero" ->
                    /\ Goto(c, "install_reload")
                    /\ enabled' = TRUE
                    /\ UNCHANGED <<result, file>>
    /\ UNCHANGED <<config, op, file0, enabled0>>

\* match Command::new(SYSTEMCTL).arg("enable").arg(unit_name).output()? { .. }
InstallEnable(c) ==
    /\ pc[c] = "install_enable"
    /\ \E exit \in Outcomes :
          /\ Invoke(c, "enable", <<unit_name(config)>>, exit, <<>>)
          /\ CASE exit = "nospawn" ->
                    Return(c, Err("IoError", "enable")) /\ UNCHANGED enabled
               [] exit = "nonzero" ->
                    Return(c, Err("CommandError", "enable")) /\ UNCHANGED enabled
               [] exit = "zero" ->
                    Goto(c, "install_reload") /\ enabled' = TRUE /\ UNCHANGED result
    /\ UNCHANGED <<config, file, op, file0, enabled0>>

\* variant of InstallReload: a failed daemon-reload rolls the installation back
InstallReload_rollback(c) ==
    /\ pc[c] = "install_reload"
    /\ \E exit \in Outcomes :
          /\ Invoke(c, "daemon-reload", <<>>, exit, <<>>)
          /\ CASE exit = "nospawn" ->
                    Return(c, Err("IoError", "daemon-reload")) /\ UNCHANGED <<file, enabled>>
               [] exit = "nonzero" ->
                    /\ Return(c, Err("CommandError", "daemon-reload"))
                    /\ file' = NoFile
                    /\ enabled' = FALSE
               [] exit = "zero" -> Return(c, Ok("unit")) /\ UNCHANGED <<file, enabled>>
    /\ UNCHANGED <<config, op, file0, enabled0>>

\* variant of InstallReload: a daemon-reload that exits non-zero is run once more
InstallReload_retry(c) ==
    /\ pc[c] = "install_reload"
    /\ \E exit \in Outcomes :
          /\ Invoke(c, "daemon-reload", <<>>, exit, <<>>)
          /\ CASE exit = "nospawn" -> Return(c, Err("IoError", "daemon-reload"))
               [] exit = "nonzero" ->
                    IF \E k \in 1..Len(log[c]) : log[c][k].cmd = "daemon-reload"
                    THEN Return(c, Err("CommandError", "daemon-reload"))
                    ELSE UNCHANGED <<pc, result>>
               [] exit = "zero" -> Return(c, Ok("unit"))
    /\ UNCHANGED <<config, file, enabled, op, file0, enabled0>>

\* match Command::new(SYSTEMCTL).arg("daemon-reload").output()? { .. }; Ok(())
InstallReload(c) ==
    /\ pc[c] = "install_reload"
    /\ \E exit \in Outcomes :
          /\ Invoke(c, "daemon-reload", <<>>, exit, <<>>)
          /\ CASE exit = "nospawn" -> Return(c, Err("IoError", "daemon-reload"))
               [] exit = "nonzero" -> Return(c, Err("CommandError", "daemon-reload"))
               [] exit = "zero" -> Return(c, Ok("unit"))
    /\ UNCHANGED <<config, file, enabled, op, file0, enabled0>>

(***************************************************************************)
(* Systemd::uninstall                                                      *)
(***************************************************************************)
\* variant of UninstallDisable: the exit status of disable is not looked at
UninstallDisable_ignore_exit(c) ==
    /\ pc[c] = "uninstall_disable"
    /\ \E exit \in Outcomes :
          /\ Invoke(c, "disable", <<unit_name(config)>>, exit, <<>>)
          /\ CASE exit = "nospawn" ->
                    Return(c, Err("IoError", "disable")) /\ UNCHANGED enabled
               [] exit = "nonzero" ->
                    Goto(c, "uninstall_remove") /\ UNCHANGED <<enabled, result>>
               [] exit = "zero" ->
                    Goto(c, "uninstall_remove") /\ enabled' = FALSE /\ UNCHANGED result
    /\ UNCHANGED <<config, file, op, file0, enabled0>>

\* match Command::new(SYSTEMCTL).arg("disable").arg(unit_name).output()? { .. }
UninstallDisable(c) ==
    /\ pc[c] = "uninstall_disable"
    /\ \E exit \in Outcomes :
          /\ Invoke(c, "disable", <<unit_name(config)>>, exit, <<>>)
          /\ CASE exit = "nospawn" ->
                    Return(c, Err("IoError", "disable")) /\ UNCHANGED enabled
               [] exit = "nonzero" ->
                    Return(c, Err("CommandError", "disable")) /\ UNCHANGED enabled
               [] exit = "zero" ->
                    Goto(c, "uninstall_remove") /\ enabled' = FALSE /\ UNCHANGED result
    /\ UNCHANGED <<config, file, op, file0, enabled0>>

\* variant of UninstallRemove: a file that cannot be removed is not an error
UninstallRemove_force(c) ==
    /\ pc[c] = "uninstall_remove"
    /\ \/ /\ Return(c, Ok("unit"))
          /\ UNCHANGED file
       \/ /\ file.exists
          /\ file' = NoFile
          /\ Return(c, Ok("unit"))
    /\ UNCHANGED <<config, enabled, op, log, file0, enabled0>>

\* variant of UninstallRemove: the file is emptied, not removed
UninstallRemove_truncate(c) ==
    /\ pc[c] = "uninstall_remove"
    /\ \/ /\ Return(c, Err("IoError", "remove_file"))
          /\ UNCHANGED file
       \/ /\ file.exists
          /\ file' = [file EXCEPT !.content = <<>>]
          /\ Return(c, Ok("unit"))
    /\ UNCHANGED <<config, enabled, op, log, file0, enabled0>>

\* fs::remove_file(self.config_path())?; Ok(())
\* removal fails when the file is absent, and may fail when it is present
UninstallRemove(c) ==
    /\ pc[c] = "uninstall_remove"
    /\ \/ /\ Return(c, Err("IoError", "remove_file"))
          /\ UNCHANGED file
       \/ /\ file.exists
          /\ file' = NoFile
          /\ Return(c, Ok("unit"))
    /\ UNCHANGED <<config, enabled, op, log, file0, enabled0>>

(***************************************************************************)
(* Systemd::start / stop / restart                                         *)
(***************************************************************************)
\* variant of Control: the exit status is not looked at
Control_ignore_exit(c, cmd) ==
    /\ \E exit \in Outcomes :
       \E out \in (IF exit = "nospawn" THEN {<<>>} ELSE ControlStdouts) :
          /\ Invoke(c, cmd, <<unit_name(config)>>, exit, out)
          /\ CASE exit = "nospawn" -> Return(c, Err("IoError", cmd))
               [] OTHER -> Return(c, Ok("unit"))
    /\ UNCHANGED <<config, file, enabled, op, file0, enabled0>>

\* match Command::new(SYSTEMCTL).arg(cmd).arg(unit_name).output()? { .. }; Ok(())
\* stdout is captured by output() and never read
Control(c, cmd) ==
    /\ \E exit \in Outcomes :
       \E out \in (IF exit = "nospawn" THEN {<<>>} ELSE ControlStdouts) :
          /\ Invoke(c, cmd, <<unit_name(config)>>, exit, out)
          /\ CASE exit = "nospawn" -> Return(c, Err("IoError", cmd))
               [] exit = "nonzero" -> Return(c, Err("CommandError", cmd))
               [] exit = "zero" -> Return(c, Ok("unit"))
    /\ UNCHANGED <<config, file, enabled, op, file0, enabled0>>

Start(c) == pc[c] = "start_cmd" /\ Control(c, "start")

Stop(c) == pc[c] = "stop_cmd" /\ Control(c, "stop")

Restart(c) == pc[c] = "restart_cmd" /\ Control(c, "restart")

(***************************************************************************)
(* Systemd::status                                                         *)
(***************************************************************************)
\* variant of StatusOfToken: the fallback arm answers Unknown
StatusOfToken_unknown(token) ==
    CASE token = S_active -> "Running"
      [] token = S_activating -> "Running"
      [] token = S_failed -> "Failed"
      [] OTHER -> "Unknown"

\* the arms of `match status.as_str()` that return at once
StatusOfToken(token) ==
    CASE token = S_active -> "Running"
      [] token = S_activating -> "Running"
      [] token = S_failed -> "Failed"
      [] OTHER -> "NotInstalled"

\* variant of StatusIsActive: the exit status of is-active is not looked at
StatusIsActive_ignore_exit(c) ==
    /\ pc[c] = "status_is_active"
    /\ \E exit \in Outcomes :
       \E out \in (IF exit = "nospawn" THEN {<<>>} ELSE IsActiveStdouts) :
          /\ Invoke(c, "is-active", <<unit_name(config)>>, exit, out)
          /\ CASE exit = "nospawn" -> Return(c, Err("IoError", "is-active"))
               [] OTHER ->
                    IF Trim(out) = S_inactive
                    THEN Goto(c, "status_list") /\ UNCHANGED result
                    ELSE Return(c, Ok(StatusOfToken(Trim(out))))
    /\ UNCHANGED <<config, file, enabled, op, file0, enabled0>>

\* let status = match Command::new(SYSTEMCTL).arg("is-active").arg(unit_name).output()?
\*   { output if output.status.success() => from_utf8_lossy(stdout).trim().to_string(), .. }
\* match status.as_str() { .. }
StatusIsActive(c) ==
    /\ pc[c] = "status_is_active"
    /\ \E exit \in Outcomes :
       \E out \in (IF exit = "nospawn" THEN {<<>>} ELSE IsActiveStdouts) :
          /\ Invoke(c, "is-active", <<unit_name(config)>>, exit, out)
          /\ CASE exit = "nospawn" -> Return(c, Err("IoError", "is-active"))
               [] exit = "nonzero" -> Return(c, Err("CommandError", "is-active"))
               [] exit = "zero" ->
                    IF Trim(out) = S_inactive
                    THEN Goto(c, "status_list") /\ UNCHANGED result
                    ELSE Return(c, Ok(StatusOfToken(Trim(out))))
    /\ UNCHANGED <<config, file, enabled, op, file0, enabled0>>

\* variant of StatusList: the exit status of list-unit-files is not looked at
StatusList_ignore_exit(c) ==
    /\ pc[c] = "status_list"
    /\ \E exit \in Outcomes :
       \E out \in (IF exit = "nospawn" THEN {<<>>} ELSE ListStdouts) :
          /\ Invoke(c, "list-unit-files", <<S_t, S_service, unit_name(config)>>, exit, out)
          /\ CASE exit = "nospawn" -> Return(c, Err("IoError", "list-unit-files"))
               [] OTHER ->
                    IF Contains(out, unit_name(config))
                    THEN Return(c, Ok("Stopped"))
                    ELSE Return(c, Ok("NotInstalled"))
    /\ UNCHANGED <<config, file, enabled, op, file0, enabled0>>

\* variant of StatusList: a unit that is not listed has its file removed
StatusList_remove(c) ==
    /\ pc[c] = "status_list"
    /\ \E exit \in Outcomes :
       \E out \in (IF exit = "nospawn" THEN {<<>>} ELSE ListStdouts) :
          /\ Invoke(c, "list-unit-files", <<S_t, S_service, unit_name(config)>>, exit, out)
          /\ CASE exit = "nospawn" ->
                    Return(c, Err("IoError", "list-unit-files")) /\ UNCHANGED file
               [] exit = "nonzero" ->
                    Return(c, Err("CommandError", "list-unit-files")) /\ UNCHANGED file
               [] exit = "zero" ->
                    IF Contains(out, unit_name(config))
                    THEN Return(c, Ok("Stopped")) /\ UNCHANGED file
                    ELSE Return(c, Ok("NotInstalled")) /\ file' = NoFile
    /\ UNCHANGED <<config, enabled, op, file0, enabled0>>

\* the "inactive" arm: list-unit-files -t service <unit>, then
\* if status.contains(&unit_name) { Stopped } else { NotInstalled }
StatusList(c) ==
    /\ pc[c] = "status_list"
    /\ \E exit \in Outcomes :
       \E out \in (IF exit = "nospawn" THEN {<<>>} ELSE ListStdouts) :
          /\ Invoke(c, "list-unit-files", <<S_t, S_service, unit_name(config)>>, exit, out)
          /\ CASE exit = "nospawn" -> Return(c, Err("IoError", "list-unit-files"))
               [] exit = "nonzero" -> Return(c, Err("CommandError", "list-unit-files"))
               [] exit = "zero" ->
                    IF Contains(out, unit_name(config))
                    THEN Return(c, Ok("Stopped"))
                    ELSE Return(c, Ok("NotInstalled"))
    /\ UNCHANGED <<config, file, enabled, op, file0, enabled0>>

(***************************************************************************)
(* The specification: one call at a time, each call running its steps.     *)
(***************************************************************************)
Step(c) ==
    \/ InstallExists(c)
    \/ InstallCreate(c)
    \/ InstallWrite(c)
    \/ InstallChmod(c)
    \/ InstallEnable(c)
    \/ InstallReload(c)
    \/ UninstallDisable(c)
    \/ UninstallRemove(c)
    \/ Start(c)
    \/ Stop(c)
    \/ Restart(c)
    \/ StatusIsActive(c)
    \/ StatusList(c)
    \/ Finish(c)

\* the thread that uses the controller (spec section 5: single-threaded,
\* fully synchronous use)
MainCaller == "c1"

Next ==
    \/ \E o \in Operations : Call(MainCaller, o)
    \/ Step(MainCaller)

Spec == Init /\ [][Next]_vars

(***************************************************************************)
(* Concurrent use: several callers run install() for the same service name *)
(* against the same file system, their steps interleaved in any order.     *)
(* Nothing in Systemd::install locks the path or opens it exclusively.     *)
(***************************************************************************)
ConcurrentInit ==
    /\ config \in {DefaultConfig, SampleConfig}
    /\ file = NoFile
    /\ enabled = FALSE
    /\ pc = [c \in Callers |-> "idle"]
    /\ op = [c \in Callers |-> "none"]
    /\ result = [c \in Callers |-> NoResult]
    /\ log = [c \in Callers |-> <<>>]
    /\ file0 = [c \in Callers |-> NoFile]
    /\ enabled0 = [c \in Callers |-> FALSE]

\* one step of one caller's install(); a returned call keeps its result
ConcurrentStep(c) ==
    \/ Begin(c, "install")
    \/ InstallExists(c)
    \/ InstallCreate(c)
    \/ InstallWrite(c)
    \/ InstallChmod(c)
    \/ InstallEnable(c)
    \/ InstallReload(c)

ConcurrentNext == \E c \in Callers : ConcurrentStep(c)

ConcurrentSpec == ConcurrentInit /\ [][ConcurrentNext]_vars

(***************************************************************************)
(* Sequential use over several calls: the calls are made one after another *)
(* in the order of CallOrder, each by its own caller so that its entry     *)
(* state, log and result stay visible after it has returned.               *)
(***************************************************************************)
CallOrder == <<"c1", "c2", "c3">>

\* the operations that create, remove or leave the unit file
SequenceOperations == {"install", "uninstall", "start", "stop", "restart"}

SequenceInit ==
    /\ config \in {DefaultConfig, SampleConfig}
    /\ file \in {NoFile, ForeignFile}
    /\ enabled \in BOOLEAN
    /\ pc = [c \in Callers |-> "idle"]
    /\ op = [c \in Callers |-> "none"]
    /\ result = [c \in Callers |-> NoResult]
    /\ log = [c \in Callers |-> <<>>]
    /\ file0 = [c \in Callers |-> NoFile]
    /\ enabled0 = [c \in Callers |-> FALSE]

\* the i-th call begins when the call before it has returned
SequenceBegin(i, o) ==
    /\ IF i = 1 THEN TRUE ELSE pc[CallOrder[i - 1]] = "done"
    /\ Begin(CallOrder[i], o)

SequenceStep(c) ==
    \/ InstallExists(c)
    \/ InstallCreate(c)
    \/ InstallWrite(c)
    \/ InstallChmod(c)
    \/ InstallEnable(c)
    \/ InstallReload(c)
    \/ UninstallDisable(c)
    \/ UninstallRemove(c)
    \/ Start(c)
    \/ Stop(c)
    \/ Restart(c)

SequenceNext ==
    \/ \E i \in 1..Len(CallOrder) : \E o \in SequenceOperations : SequenceBegin(i, o)
    \/ \E c \in Callers : SequenceStep(c)

SequenceSpec == SequenceInit /\ [][SequenceNext]_vars

(***************************************************************************)
(* The Service-trait controller (src/systemd.rs): its own Config and       *)
(* Display, and the six operations of impl Service for Systemd.  Its       *)
(* errors are ServiceError { message }, modelled by the step that raised   *)
(* them.                                                                   *)
(***************************************************************************)
\* impl fmt::Display for Config (src/systemd.rs): the writes in source order
TraitConfigDisplay(cfg) ==
    <<"[Unit]", "Description=" \o Concat(cfg.display_name),
      "[Service]", "StartLimitInterval=5", "StartLimitBurst=10">>
    \o (IF cfg.args # None
        THEN <<"ExecStart=" \o Concat(cfg.executable) \o " "
                  \o Join([i \in 1..Len(cfg.args[1]) |-> Concat(cfg.args[1][i])], " ")>>
        ELSE <<"ExecStart=" \o Concat(cfg.executable)>>)
    \o <<"KillSignal=SIGINT">>
    \o (IF cfg.restart THEN <<"Restart=always">> ELSE <<"Restart=no">>)
    \o (IF cfg.ch_root # None
        THEN <<"RootDirectory=" \o Concat(cfg.ch_root[1])>> ELSE <<>>)
    \o (IF cfg.working_directory # None
        THEN <<"WorkingDirectory=" \o Concat(cfg.working_directory[1])>> ELSE <<>>)
    \o (IF cfg.username # None
        THEN <<"User=" \o Concat(cfg.username[1])>> ELSE <<>>)
    \o <<"RestartSec=120", "EnvironmentFile=-/etc/sysconfig/">>
    \o (IF cfg.environment # None
        THEN [i \in 1..Len(cfg.environment[1]) |->
                 "Environment=" \o Concat(cfg.environment[1][i][1]) \o "="
                     \o Concat(cfg.environment[1][i][2])]
        ELSE <<>>)
    \o <<"[Install]", "WantedBy=multi-user.target">>

\* Config::unit_name of src/systemd.rs
TraitUnitName(cfg) == cfg.name \o S_dot_service

TraitPlainConfig ==
    [name |-> S_foo, display_name |-> S_demo, description |-> None,
     username |-> None, executable |-> S_bin_a, args |-> None,
     working_directory |-> None, environment |-> None, ch_root |-> None,
     restart |-> FALSE, restart_sec |-> None]

TraitFullConfig ==
    [name |-> S_foo, display_name |-> S_demo, description |-> Some(S_demo),
     username |-> Some(S_root), executable |-> S_bin_a, args |-> Some(<<S_a, S_b>>),
     working_directory |-> Some(S_bin_b), environment |-> Some(<<(<<S_FOO, S_a>>)>>),
     ch_root |-> Some(S_bin_b), restart |-> TRUE, restart_sec |-> Some(7)]

TraitConfigs == {TraitPlainConfig, TraitFullConfig}

\* if dst.exists() { return Err(ServiceError) }
TraitInstallExists(c) ==
    /\ pc[c] = "trait_install_exists"
    /\ IF file.exists
       THEN Return(c, Err("ServiceError", "exists"))
       ELSE Goto(c, "trait_install_create") /\ UNCHANGED result
    /\ UNCHANGED <<config, file, enabled, op, log, file0, enabled0>>

\* File::create(&dst).map_err(..)?
TraitInstallCreate(c) ==
    /\ pc[c] = "trait_install_create"
    /\ \/ /\ Return(c, Err("ServiceError", "create"))
          /\ UNCHANGED file
       \/ /\ \E m \in CreatedModes :
                file' = [exists |-> TRUE, content |-> <<>>,
                         mode |-> IF file.exists THEN file.mode ELSE m]
          /\ Goto(c, "trait_install_write")
          /\ UNCHANGED result
    /\ UNCHANGED <<config, enabled, op, log, file0, enabled0>>

\* file.write_all(format!("{}", self.config).as_bytes()).map_err(..)?
TraitInstallWrite(c) ==
    /\ pc[c] = "trait_install_write"
    /\ LET doc == TraitConfigDisplay(config)
       IN  \/ /\ \E k \in 0..(Len(doc) - 1) :
                    file' = [file EXCEPT !.exists = TRUE, !.content = SubSeq(doc, 1, k)]
              /\ Return(c, Err("ServiceError", "write"))
           \/ /\ file' = [file EXCEPT !.exists = TRUE, !.content = doc]
              /\ Goto(c, "trait_install_chmod")
              /\ UNCHANGED result
    /\ UNCHANGED <<config, enabled, op, log, file0, enabled0>>

\* std::fs::set_permissions(&dst, Permissions::from_mode(SERVICE_FILE_PERMISSIONS))
TraitInstallChmod(c) ==
    /\ pc[c] = "trait_install_chmod"
    /\ \/ /\ Return(c, Err("ServiceError", "set_permissions"))
          /\ UNCHANGED file
       \/ /\ file.exists
          /\ file' = [file EXCEPT !.mode = SERVICE_FILE_PERMISSIONS]
          /\ Goto(c, "trait_install_enable")
          /\ UNCHANGED result
    /\ UNCHANGED <<config, enabled, op, log, file0, enabled0>>

\* Command::new(SYSTEMCTL).arg("enable").arg(unit_name).output().map_err(..)?;
\* the Output is dropped: its status is not looked at
TraitInstallEnable(c) ==
    /\ pc[c] = "trait_install_enable"
    /\ \E exit \in Outcomes :
          /\ Invoke(c, "enable", <<TraitUnitName(config)>>, exit, <<>>)
          /\ CASE exit = "nospawn" ->
                    Return(c, Err("ServiceError", "enable")) /\ UNCHANGED enabled
               [] exit = "nonzero" ->
                    Goto(c, "trait_install_reload") /\ UNCHANGED <<enabled, result>>
               [] exit = "zero" ->
                    Goto(c, "trait_install_reload") /\ enabled' = TRUE /\ UNCHANGED result
    /\ UNCHANGED <<config, file, op, file0, enabled0>>

\* Command::new(SYSTEMCTL).arg("daemon-reload").output().map_err(..)?; Ok(())
TraitInstallReload(c) ==
    /\ pc[c] = "trait_install_reload"
    /\ \E exit \in Outcomes :
          /\ Invoke(c, "daemon-reload", <<>>, exit, <<>>)
          /\ CASE exit = "nospawn" -> Return(c, Err("ServiceError", "daemon-reload"))
               [] OTHER -> Return(c, Ok("unit"))
    /\ UNCHANGED <<config, file, enabled, op, file0, enabled0>>

\* Command::new(SYSTEMCTL).arg("disable").arg(unit_name).output().map_err(..)?
TraitUninstallDisable(c) ==
    /\ pc[c] = "trait_uninstall_disable"
    /\ \E exit \in Outcomes :
          /\ Invoke(c, "disable", <<TraitUnitName(config)>>, exit, <<>>)
          /\ CASE exit = "nospawn" ->
                    Return(c, Err("ServiceError", "disable")) /\ UNCHANGED enabled
               [] exit = "nonzero" ->
                    Goto(c, "trait_uninstall_remove") /\ UNCHANGED <<enabled, result>>
               [] exit = "zero" ->
                    Goto(c, "trait_uninstall_remove") /\ enabled' = FALSE
                        /\ UNCHANGED result
    /\ UNCHANGED <<config, file, op, file0, enabled0>>

\* fs::remove_file(self.config_path()).map_err(..)?; Ok(())
TraitUninstallRemove(c) ==
    /\ pc[c] = "trait_uninstall_remove"
    /\ \/ /\ Return(c, Err("ServiceError", "remove_file"))
          /\ UNCHANGED file
       \/ /\ file.exists
          /\ file' = NoFile
          /\ Return(c, Ok("unit"))
    /\ UNCHANGED <<config, enabled, op, log, file0, enabled0>>

\* Command::new(SYSTEMCTL).arg(cmd).arg(unit_name).output().map_err(..)?; Ok(())
TraitControl(c, cmd) ==
    /\ \E exit \in Outcomes :
       \E out \in (IF exit = "nospawn" THEN {<<>>} ELSE ControlStdouts) :
          /\ Invoke(c, cmd, <<TraitUnitName(config)>>, exit, out)
          /\ CASE exit = "nospawn" -> Return(c, Err("ServiceError", cmd))
               [] OTHER -> Return(c, Ok("unit"))
    /\ UNCHANGED <<config, file, enabled, op, file0, enabled0>>

TraitStart(c) == pc[c] = "trait_start_cmd" /\ TraitControl(c, "start")

TraitStop(c) == pc[c] = "trait_stop_cmd" /\ TraitControl(c, "stop")

TraitRestart(c) == pc[c] = "trait_restart_cmd" /\ TraitControl(c, "restart")

\* match status.trim() { .. } of src/systemd.rs, the "inactive" arm apart
TraitStatusOfToken(token) ==
    CASE token = S_active -> "Running"
      [] token = S_activating -> "Running"
      [] token = S_failed -> "Failed"
      [] OTHER -> "NotInstalled"

\* is-active: the exit status is not looked at, stdout is trimmed and matched
TraitStatusIsActive(c) ==
    /\ pc[c] = "trait_status_is_active"
    /\ \E exit \in Outcomes :
       \E out \in (IF exit = "nospawn" THEN {<<>>} ELSE IsActiveStdouts) :
          /\ Invoke(c, "is-active", <<TraitUnitName(config)>>, exit, out)
          /\ CASE exit = "nospawn" -> Return(c, Err("ServiceError", "is-active"))
               [] OTHER ->
                    IF Trim(out) = S_inactive
                    THEN Goto(c, "trait_status_list") /\ UNCHANGED result
                    ELSE Return(c, Ok(TraitStatusOfToken(Trim(out))))
    /\ UNCHANGED <<config, file, enabled, op, file0, enabled0>>

\* the "inactive" arm: list-unit-files, whose exit status is looked at
TraitStatusList(c) ==
    /\ pc[c] = "trait_status_list"
    /\ \E exit \in Outcomes :
       \E out \in (IF exit = "nospawn" THEN {<<>>} ELSE ListStdouts) :
          /\ Invoke(c, "list-unit-files", <<S_t, S_service, TraitUnitName(config)>>,
                    exit, out)
          /\ CASE exit = "nospawn" -> Return(c, Err("ServiceError", "list-unit-files"))
               [] exit = "nonzero" -> Return(c, Err("ServiceError", "list-unit-files"))
               [] exit = "zero" ->
                    IF Contains(out, TraitUnitName(config))
                    THEN Return(c, Ok("Stopped"))
                    ELSE Return(c, Ok("NotInstalled"))
    /\ UNCHANGED <<config, file, enabled, op, file0, enabled0>>

TraitInit ==
    /\ config \in TraitConfigs
    /\ file \in {NoFile, ForeignFile}
    /\ enabled \in BOOLEAN
    /\ pc = [c \in Callers |-> "idle"]
    /\ op = [c \in Callers |-> "none"]
    /\ result = [c \in Callers |-> NoResult]
    /\ log = [c \in Callers |-> <<>>]
    /\ file0 = [c \in Callers |-> NoFile]
    /\ enabled0 = [c \in Callers |-> FALSE]

TraitStep(c) ==
    \/ TraitInstallExists(c)
    \/ TraitInstallCreate(c)
    \/ TraitInstallWrite(c)
    \/ TraitInstallChmod(c)
    \/ TraitInstallEnable(c)
    \/ TraitInstallReload(c)
    \/ TraitUninstallDisable(c)
    \/ TraitUninstallRemove(c)
    \/ TraitStart(c)
    \/ TraitStop(c)
    \/ TraitRestart(c)
    \/ TraitStatusIsActive(c)
    \/ TraitStatusList(c)
    \/ Finish(c)

TraitNext ==
    \/ \E o \in TraitOperations : Call(MainCaller, o)
    \/ TraitStep(MainCaller)

TraitSpec == TraitInit /\ [][TraitNext]_vars

(***************************************************************************)
(* The operations on sections: rendering (to_string() of a section or of   *)
(* the Config) and Exec::validate.  Each is a pure function of the         *)
(* configuration and returns in one step.                                  *)
(***************************************************************************)
\* the operations that need an Exec are called when Service.exec holds one
Applicable(o) ==
    o \in {"render_exec", "validate_exec"} => config.service.exec # None

SectionCall(c, o) ==
    /\ Applicable(o)
    /\ Call(c, o)

RenderConfig(c) ==
    /\ pc[c] = "render_config"
    /\ Return(c, Ok(ConfigDisplay(config)))
    /\ UNCHANGED <<config, file, enabled, op, log, file0, enabled0>>

RenderUnit(c) ==
    /\ pc[c] = "render_unit"
    /\ Return(c, Ok(UnitDisplay(config.unit)))
    /\ UNCHANGED <<config, file, enabled, op, log, file0, enabled0>>

RenderService(c) ==
    /\ pc[c] = "render_service"
    /\ Return(c, Ok(ServiceDisplay(config.service)))
    /\ UNCHANGED <<config, file, enabled, op, log, file0, enabled0>>

RenderInstall(c) ==
    /\ pc[c] = "render_install"
    /\ Return(c, Ok(InstallDisplay(config.install)))
    /\ UNCHANGED <<config, file, enabled, op, log, file0, enabled0>>

RenderExec(c) ==
    /\ pc[c] = "render_exec"
    /\ Return(c, Ok(ExecDisplay(config.service.exec[1])))
    /\ UNCHANGED <<config, file, enabled, op, log, file0, enabled0>>

\* write_vec_multi!(buf, field, key) on a list of commands, the use its
\* documentation names ("for multi-value options like ExecStart")
ApplyWriteVecMulti(c) ==
    /\ pc[c] = "write_vec_multi"
    /\ Return(c, Ok(write_vec_multi(FmtVec("String", config.service.exec_start),
                                    "ExecStart")))
    /\ UNCHANGED <<config, file, enabled, op, log, file0, enabled0>>

ValidateExec(c) ==
    /\ pc[c] = "validate_exec"
    /\ Return(c, ExecValidate(config.service.exec[1]))
    /\ UNCHANGED <<config, file, enabled, op, log, file0, enabled0>>

ValidateUnit(c) ==
    /\ pc[c] = "validate_unit"
    /\ Return(c, UnitValidate(config.unit))
    /\ UNCHANGED <<config, file, enabled, op, log, file0, enabled0>>

ValidateService(c) ==
    /\ pc[c] = "validate_service"
    /\ Return(c, ServiceValidate(config.service))
    /\ UNCHANGED <<config, file, enabled, op, log, file0, enabled0>>

ValidateInstall(c) ==
    /\ pc[c] = "validate_install"
    /\ Return(c, InstallValidate(config.install))
    /\ UNCHANGED <<config, file, enabled, op, log, file0, enabled0>>

SectionInit ==
    /\ config \in SectionConfigs
    /\ file = NoFile
    /\ enabled = FALSE
    /\ pc = [c \in Callers |-> "idle"]
    /\ op = [c \in Callers |-> "none"]
    /\ result = [c \in Callers |-> NoResult]
    /\ log = [c \in Callers |-> <<>>]
    /\ file0 = [c \in Callers |-> NoFile]
    /\ enabled0 = [c \in Callers |-> FALSE]

SectionStep(c) ==
    \/ RenderConfig(c)
    \/ RenderUnit(c)
    \/ RenderService(c)
    \/ RenderInstall(c)
    \/ RenderExec(c)
    \/ ApplyWriteVecMulti(c)
    \/ ValidateExec(c)
    \/ ValidateUnit(c)
    \/ ValidateService(c)
    \/ ValidateInstall(c)
    \/ Finish(c)

SectionNext ==
    \/ \E o \in SectionOperations : SectionCall(MainCaller, o)
    \/ SectionStep(MainCaller)

SectionSpec == SectionInit /\ [][SectionNext]_vars

(***************************************************************************)
(* Properties of the controller.                                           *)
(***************************************************************************)
\* the unit name of the configurations, written out
FooService == <<"f", "o", "o", ".", "s", "e", "r", "v", "i", "c", "e">>

\* text u occurs in text t, character by character
Occurs(u, t) ==
    \E i \in 0..Len(t) :
        /\ i + Len(u) <= Len(t)
        /\ \A j \in 1..Len(u) : t[i + j] = u[j]

\* text t without the whitespace at its two ends
Stripped(t) ==
    LET inner == {i \in 1..Len(t) : t[i] \notin {" ", "\n", "\t", "\r"}}
    IN  IF inner = {} THEN <<>>
        ELSE LET lo == CHOOSE i \in inner : \A j \in inner : i <= j
                 hi == CHOOSE i \in inner : \A j \in inner : j <= i
             IN  [k \in 1..(hi - lo + 1) |-> t[lo + k - 1]]

\* C1: install() on an existing unit file returns a Validation error, invokes no
\* external command, and leaves the file's content and mode as they were.
C1_InstallExistingFile ==
    \A c \in Callers :
        (op[c] = "install" /\ file0[c].exists /\ pc[c] # "install_exists") =>
            /\ pc[c] = "done"
            /\ result[c].kind = "ValidationError"
            /\ log[c] = <<>>
            /\ file = file0[c]

C1_Witness ==
    \E c \in Callers :
        /\ op[c] = "install" /\ pc[c] = "done"
        /\ file0[c] = ForeignFile
        /\ result[c].kind = "ValidationError"

\* C2: status(), when is-active exits zero, maps the whitespace-trimmed token
\* "active" and "activating" to Running, "failed" to Failed, and every token other
\* than active/activating/failed/inactive (the empty output too) to NotInstalled,
\* and invokes no second command in these cases.
C2_StatusMapping ==
    \A c \in Callers :
        (/\ op[c] = "status" /\ Len(log[c]) >= 1
         /\ log[c][1].exit = "zero"
         /\ Stripped(log[c][1].out) # <<"i", "n", "a", "c", "t", "i", "v", "e">>) =>
            LET token == Stripped(log[c][1].out)
            IN  /\ pc[c] = "done"
                /\ Len(log[c]) = 1
                /\ log[c][1].cmd = "is-active"
                /\ log[c][1].args = <<FooService>>
                /\ token = <<"a", "c", "t", "i", "v", "e">> => result[c] = Ok("Running")
                /\ token = <<"a", "c", "t", "i", "v", "a", "t", "i", "n", "g">> =>
                       result[c] = Ok("Running")
                /\ token = <<"f", "a", "i", "l", "e", "d">> => result[c] = Ok("Failed")
                /\ token \notin {<<"a", "c", "t", "i", "v", "e">>,
                                 <<"a", "c", "t", "i", "v", "a", "t", "i", "n", "g">>,
                                 <<"f", "a", "i", "l", "e", "d">>} =>
                       result[c] = Ok("NotInstalled")

C2_Witness ==
    \E c \in Callers :
        /\ op[c] = "status" /\ pc[c] = "done"
        /\ log[c][1].exit = "zero"
        /\ log[c][1].out = <<" ", "u", "n", "k", "n", "o", "w", "n", "\n">>
        /\ result[c] = Ok("NotInstalled")

\* C3: status(), when the is-active token is "inactive", issues exactly one
\* list-unit-files query for the unit and, if that query exits zero, returns Stopped
\* if and only if its stdout contains <name>.service, and NotInstalled otherwise.
C3_InactiveBranch ==
    \A c \in Callers :
        (/\ op[c] = "status" /\ Len(log[c]) >= 1
         /\ log[c][1].exit = "zero"
         /\ Stripped(log[c][1].out) = <<"i", "n", "a", "c", "t", "i", "v", "e">>) =>
            /\ pc[c] \in {"status_list", "done"}
            /\ pc[c] = "status_list" => Len(log[c]) = 1
            /\ pc[c] = "done" =>
                  /\ Len(log[c]) = 2
                  /\ log[c][2].cmd = "list-unit-files"
                  /\ log[c][2].args = <<S_t, S_service, FooService>>
                  /\ log[c][2].exit = "zero" =>
                        /\ result[c] \in {Ok("Stopped"), Ok("NotInstalled")}
                        /\ result[c] = Ok("Stopped") <=> Occurs(FooService, log[c][2].out)

C3_Witness ==
    \E c \in Callers :
        /\ op[c] = "status" /\ pc[c] = "done" /\ Len(log[c]) = 2
        /\ log[c][1].out = <<"i", "n", "a", "c", "t", "i", "v", "e", "\n">>
        /\ log[c][2].exit = "zero"
        /\ log[c][2].out = FooService \o <<"\n">>
        /\ result[c] = Ok("Stopped")

\* C4: status() returns a Command error, never a Status value, whenever is-active
\* exits non-zero, whatever it printed; list-unit-files is then not issued.
C4_PrimaryFailure ==
    \A c \in Callers :
        (op[c] = "status" /\ Len(log[c]) >= 1 /\ log[c][1].exit = "nonzero") =>
            /\ pc[c] = "done"
            /\ result[c].kind = "CommandError"
            /\ Len(log[c]) = 1

C4_Witness ==
    \E c \in Callers :
        /\ op[c] = "status" /\ pc[c] = "done"
        /\ log[c][1].exit = "nonzero"
        /\ log[c][1].out = <<"i", "n", "a", "c", "t", "i", "v", "e", "\n">>
        /\ result[c].kind = "CommandError"

\* C5: status() in the inactive branch returns a Command error (not Stopped, not
\* NotInstalled) whenever list-unit-files exits non-zero, whatever its stdout.
C5_SecondaryFailure ==
    \A c \in Callers :
        (op[c] = "status" /\ Len(log[c]) >= 2 /\ log[c][2].exit = "nonzero") =>
            /\ pc[c] = "done"
            /\ log[c][2].cmd = "list-unit-files"
            /\ result[c].kind = "CommandError"

C5_Witness ==
    \E c \in Callers :
        /\ op[c] = "status" /\ pc[c] = "done" /\ Len(log[c]) = 2
        /\ log[c][2].exit = "nonzero"
        /\ log[c][2].out = FooService \o <<"\n">>
        /\ result[c].kind = "CommandError"

\* C6: install() on a name without a unit file creates and writes the file, sets
\* its mode to 0644, invokes enable <name>.service, then daemon-reload, in this
\* order; no command is invoked before the file is written and its mode set; a
\* failure of creation, writing or the mode change returns an I/O error with no
\* command invoked; on success the file exists with mode 0644 and both commands
\* were invoked and exited zero.
C6_InstallOrder ==
    \A c \in Callers :
        (op[c] = "install" /\ ~file0[c].exists) =>
            LET written ==
                    /\ file.exists
                    /\ file.content = ConfigDisplay(config)
                    /\ file.mode = 420
            IN  /\ pc[c] = "install_write" => file.exists /\ file.content = <<>>
                /\ pc[c] = "install_chmod" =>
                       file.exists /\ file.content = ConfigDisplay(config)
                /\ pc[c] \in {"install_exists", "install_create", "install_write",
                              "install_chmod", "install_enable"} => log[c] = <<>>
                /\ log[c] # <<>> =>
                       /\ written
                       /\ log[c][1].cmd = "enable"
                       /\ log[c][1].args = <<FooService>>
                       /\ Len(log[c]) <= 2
                       /\ Len(log[c]) = 2 =>
                              /\ log[c][1].exit = "zero"
                              /\ log[c][2].cmd = "daemon-reload"
                              /\ log[c][2].args = <<>>
                /\ (pc[c] = "done" /\ ~written) =>
                       /\ result[c].kind = "IoError"
                       /\ log[c] = <<>>
                /\ (pc[c] = "done" /\ log[c] = <<>>) =>
                       /\ result[c].kind = "IoError"
                       /\ result[c].value \in {"create", "write", "set_permissions"}
                /\ result[c] = Ok("unit") =>
                       /\ pc[c] = "done"
                       /\ written
                       /\ Len(log[c]) = 2
                       /\ log[c][1].exit = "zero"
                       /\ log[c][2].exit = "zero"

C6_Witness ==
    \E c \in Callers :
        /\ op[c] = "install" /\ pc[c] = "done"
        /\ ~file0[c].exists
        /\ result[c] = Ok("unit")
        /\ file.mode = 420
        /\ file.content = <<"[Unit]", "Description=demo", "[Service]",
                            "ExecStart=/bin/a /bin/b", "[Install]",
                            "WantedBy=multi-user.target">>

\* C7: install() returns a Command error whenever enable or daemon-reload exits
\* non-zero; when enable exits non-zero, daemon-reload is never invoked in that call.
C7_InstallCommandFailure ==
    \A c \in Callers :
        op[c] = "install" =>
            /\ \A k \in 1..Len(log[c]) :
                  log[c][k].exit = "nonzero" =>
                      /\ pc[c] = "done"
                      /\ result[c].kind = "CommandError"
                      /\ k = Len(log[c])
            /\ (log[c] # <<>> /\ log[c][1].exit = "nonzero") =>
                  \A k \in 1..Len(log[c]) : log[c][k].cmd # "daemon-reload"

C7_Witness ==
    \E c \in Callers :
        /\ op[c] = "install" /\ pc[c] = "done"
        /\ Len(log[c]) = 1
        /\ log[c][1].cmd = "enable" /\ log[c][1].exit = "nonzero"
        /\ result[c].kind = "CommandError"

\* C8: install() never rolls back: when enable succeeds and daemon-reload fails,
\* install() returns an error and the unit file still exists and the unit is still
\* enabled; install() never deletes the file and never invokes disable.
C8_NoRollback ==
    \A c \in Callers :
        op[c] = "install" =>
            /\ (/\ Len(log[c]) = 2
                /\ log[c][1].cmd = "enable" /\ log[c][1].exit = "zero"
                /\ log[c][2].cmd = "daemon-reload" /\ log[c][2].exit # "zero") =>
                  /\ pc[c] = "done"
                  /\ IsErr(result[c])
                  /\ file.exists
                  /\ file.content = ConfigDisplay(config)
                  /\ enabled
            /\ \A k \in 1..Len(log[c]) : log[c][k].cmd # "disable"
            /\ file0[c].exists => file = file0[c]
            /\ (pc[c] \notin {"install_exists", "install_create"}
                    /\ result[c].value # "create") => file.exists

C8_Witness ==
    \E c \in Callers :
        /\ op[c] = "install" /\ pc[c] = "done"
        /\ Len(log[c]) = 2
        /\ log[c][1].exit = "zero" /\ log[c][2].exit = "nonzero"
        /\ ~enabled0[c] /\ enabled
        /\ ~file0[c].exists /\ file.exists

\* C9: uninstall() invokes disable <name>.service before it attempts to delete the
\* unit file; when disable exits non-zero, uninstall() returns a Command error and
\* the unit file is not deleted.
C9_DisableBeforeDelete ==
    \A c \in Callers :
        op[c] = "uninstall" =>
            /\ (pc[c] = "uninstall_remove" \/ file # file0[c]
                    \/ result[c].value = "remove_file" \/ result[c] = Ok("unit")) =>
                  /\ Len(log[c]) = 1
                  /\ log[c][1].cmd = "disable"
                  /\ log[c][1].args = <<FooService>>
                  /\ log[c][1].exit = "zero"
            /\ (log[c] # <<>> /\ log[c][1].exit = "nonzero") =>
                  /\ pc[c] = "done"
                  /\ result[c].kind = "CommandError"
                  /\ file = file0[c]

C9_Witness ==
    \E c \in Callers :
        /\ op[c] = "uninstall" /\ pc[c] = "done"
        /\ log[c][1].cmd = "disable" /\ log[c][1].exit = "nonzero"
        /\ result[c].kind = "CommandError"
        /\ file0[c].exists /\ file.exists

\* C10: uninstall() returns an I/O error when disable exits zero but deleting the
\* unit file fails (for example because the file does not exist); the disable
\* already performed is not undone.
C10_RemoveFailure ==
    \A c \in Callers :
        (/\ op[c] = "uninstall" /\ pc[c] = "done"
         /\ log[c][1].exit = "zero"
         /\ file = file0[c]) =>
            /\ result[c].kind = "IoError"
            /\ ~enabled
            /\ Len(log[c]) = 1

C10_Witness ==
    \E c \in Callers :
        /\ op[c] = "uninstall" /\ pc[c] = "done"
        /\ log[c][1].exit = "zero"
        /\ ~file0[c].exists
        /\ enabled0[c] /\ ~enabled
        /\ result[c].kind = "IoError"

\* C11: start(), stop() and restart() each invoke the control executable exactly
\* once, with the sub-command of the same name and the argument <name>.service; the
\* operation returns a Command error if and only if that invocation exits non-zero,
\* and returns success on exit zero whatever stdout holds.
C11_ControlCommands ==
    \A c \in Callers :
        (op[c] \in {"start", "stop", "restart"} /\ pc[c] = "done") =>
            /\ Len(log[c]) = 1
            /\ log[c][1].cmd = op[c]
            /\ log[c][1].args = <<FooService>>
            /\ result[c].kind = "CommandError" <=> log[c][1].exit = "nonzero"
            /\ log[c][1].exit = "zero" => result[c] = [kind |-> "Ok", value |-> "unit"]
            /\ file = file0[c] /\ enabled = enabled0[c]

C11_Witness ==
    \E c \in Callers :
        /\ op[c] = "restart" /\ pc[c] = "done"
        /\ log[c][1].exit = "zero"
        /\ log[c][1].out = <<"f", "a", "i", "l", "e", "d">>
        /\ result[c].kind = "Ok"

(***************************************************************************)
(* Properties of the rendering and of the validation, under SectionSpec.   *)
(***************************************************************************)
\* the section an operation renders: its formatter table, its value and the
\* header line it starts with (none for Exec)
SectionOf(o) ==
    CASE o = "render_unit" ->
             [table |-> UnitFields, rec |-> config.unit, head |-> <<"[Unit]">>]
      [] o = "render_service" ->
             [table |-> ServiceFields, rec |-> config.service, head |-> <<"[Service]">>]
      [] o = "render_install" ->
             [table |-> InstallFields, rec |-> config.install, head |-> <<"[Install]">>]
      [] o = "render_exec" ->
             [table |-> ExecFields, rec |-> config.service.exec[1], head |-> <<>>]

RenderOperations == {"render_unit", "render_service", "render_install", "render_exec"}

\* every field of the record is unset
AllUnset(rec) == \A f \in DOMAIN rec : rec[f] = <<>>

\* no field of the record but f is set
OnlySet(rec, f) == \A g \in DOMAIN rec : g # f => rec[g] = <<>>

\* the most lines a field may contribute: none when unset, one per element or one
LinesAllowed(e, rec) ==
    IF rec[e.field] = <<>> THEN 0
    ELSE IF e.rule \in {"vec", "lines"} THEN Len(rec[e.field][1])
    ELSE 1

SumLinesAllowed(table, rec) ==
    Cardinality(UNION {{<<i, k>> : k \in 1..LinesAllowed(table[i], rec)} :
                          i \in 1..Len(table)})

\* how often a line occurs in a document
Times(doc, line) == Cardinality({j \in 1..Len(doc) : doc[j] = line})

\* the lines occur in the document one after the other
Consecutive(doc, lines) ==
    \E at \in 0..Len(doc) :
        /\ at + Len(lines) <= Len(doc)
        /\ \A k \in 1..Len(lines) : doc[at + k] = lines[k]

\* the texts with one space between neighbours
RECURSIVE Spaced(_)
Spaced(texts) ==
    IF Len(texts) = 1 THEN texts[1]
    ELSE Spaced(SubSeq(texts, 1, Len(texts) - 1)) \o " " \o texts[Len(texts)]

\* C12: a default-constructed Unit, Service or Install section renders to exactly
\* its header line, and a section never renders more field lines than its set
\* fields account for: an unset field emits no line.
C12_DefaultSection ==
    \A c \in Callers :
        (op[c] \in {"render_unit", "render_service", "render_install"} /\ pc[c] = "done") =>
            LET s == SectionOf(op[c])
                doc == result[c].value
            IN  /\ result[c].kind = "Ok"
                /\ AllUnset(s.rec) => doc = s.head
                /\ doc[1] = s.head[1]
                /\ Len(doc) - 1 <=
                       SumLinesAllowed(s.table, s.rec)
                       + (IF op[c] = "render_service" /\ s.rec.exec # <<>>
                          THEN SumLinesAllowed(ExecFields, s.rec.exec[1]) ELSE 0)

C12_Witness ==
    \E c \in Callers :
        /\ op[c] = "render_service" /\ pc[c] = "done"
        /\ AllUnset(config.service)
        /\ result[c].value = <<"[Service]">>

\* C13: the document of any Config holds the headers [Unit], [Service], [Install]
\* exactly once each and in that order, a header being present also when its section
\* has no field set, and the field lines of each section lie between its header and
\* the next.
C13_DocumentSections ==
    \A c \in Callers :
        (op[c] = "render_config" /\ pc[c] = "done") =>
            LET doc == result[c].value
            IN  /\ result[c].kind = "Ok"
                /\ Times(doc, "[Unit]") = 1
                /\ Times(doc, "[Service]") = 1
                /\ Times(doc, "[Install]") = 1
                /\ \E u, s, i \in 1..Len(doc) :
                      /\ doc[u] = "[Unit]" /\ doc[s] = "[Service]" /\ doc[i] = "[Install]"
                      /\ u = 1 /\ u < s /\ s < i
                      /\ SubSeq(doc, u + 1, s - 1) = FieldLines(UnitFields, config.unit)
                      /\ SubSeq(doc, s + 1, i - 1) = FieldLines(ServiceFields, config.service)
                      /\ SubSeq(doc, i + 1, Len(doc)) = FieldLines(InstallFields, config.install)

C13_Witness ==
    \E c \in Callers :
        /\ op[c] = "render_config" /\ pc[c] = "done"
        /\ AllUnset(config.service)
        /\ ~AllUnset(config.unit) /\ ~AllUnset(config.install)
        /\ \E s \in 2..(Len(result[c].value) - 2) :
              /\ result[c].value[s] = "[Service]"
              /\ result[c].value[s + 1] = "[Install]"

\* C14: each command-list field of a Service (exec_start, exec_start_pre,
\* exec_start_post, exec_condition, exec_reload, exec_stop, exec_stop_post) that holds
\* n commands renders as n lines Key=<command>, one per command, in list order.
C14_CommandListLines ==
    \A c \in Callers :
        (op[c] = "render_service" /\ pc[c] = "done") =>
            \A i \in 1..Len(ServiceFields) :
                LET e == ServiceFields[i]
                    v == config.service[e.field]
                IN  (/\ e.field \in {"exec_start", "exec_start_pre", "exec_start_post",
                                     "exec_condition", "exec_reload", "exec_stop",
                                     "exec_stop_post"}
                     /\ v # <<>>) =>
                        Consecutive(result[c].value,
                                    [k \in 1..Len(v[1]) |-> e.key \o "=" \o Concat(v[1][k])])

\* C15: when a Service carries an execution-environment record in exec, rendering the
\* Service emits the lines of that record's set fields (User=<user> when exec.user is
\* set) inside the [Service] block.
C15_ExecInService ==
    \A c \in Callers :
        (op[c] = "render_service" /\ pc[c] = "done" /\ config.service.exec # <<>>) =>
            LET x == config.service.exec[1]
                doc == result[c].value
            IN  /\ x.user # <<>> => Times(doc, "User=" \o Concat(x.user[1])) = 1
                /\ doc[1] = "[Service]"
                /\ \A k \in 1..Len(ExecDisplay(x)) : Times(doc, ExecDisplay(x)[k]) >= 1

\* C16: a list field under the space-joined rule emits no line when the list is
\* absent or empty, and for a non-empty list exactly one line Key=<v1> <v2> ... with
\* the values in list order and one space between them.
C16_SpaceJoined ==
    \A c \in Callers :
        (op[c] \in RenderOperations /\ pc[c] = "done") =>
            LET s == SectionOf(op[c])
                doc == result[c].value
            IN  \A i \in 1..Len(s.table) :
                    LET e == s.table[i]
                        v == s.rec[e.field]
                    IN  e.rule = "vec" =>
                            IF v = <<>> \/ v[1] = <<>>
                            THEN OnlySet(s.rec, e.field) => doc = s.head
                            ELSE LET line == e.key \o "=" \o
                                          Spaced([k \in 1..Len(v[1]) |-> Fmt(e.ty, v[1][k])])
                                 IN  /\ Times(doc, line) = 1
                                     /\ OnlySet(s.rec, e.field) => doc = s.head \o <<line>>

C16_Witness ==
    \E c \in Callers :
        /\ op[c] = "render_install" /\ pc[c] = "done"
        /\ config.install.wanted_by = <<(<<(<<"a">>), (<<"b">>)>>)>>
        /\ result[c].value = <<"[Install]", "WantedBy=a b">>

\* C17: a list field under the per-line rule emits one line Key=<vi> per element, in
\* list order and keeping duplicates, and nothing when the list is absent or empty.
C17_PerLine ==
    \A c \in Callers :
        /\ (op[c] = "render_exec" /\ pc[c] = "done") =>
              LET x == config.service.exec[1]
                  doc == result[c].value
              IN  \A i \in 1..Len(ExecFields) :
                      LET e == ExecFields[i]
                          v == x[e.field]
                          lines == IF v = <<>> THEN <<>>
                                   ELSE [k \in 1..Len(v[1]) |-> e.key \o "=" \o Concat(v[1][k])]
                      IN  e.field \in {"environment_file", "read_write_paths",
                                       "read_only_paths", "inaccessible_paths"} =>
                              /\ Consecutive(doc, lines)
                              /\ OnlySet(x, e.field) => doc = lines
        /\ (op[c] = "write_vec_multi" /\ pc[c] = "done") =>
              LET v == config.service.exec_start
              IN  result[c].value =
                      IF v = <<>> THEN <<>>
                      ELSE [k \in 1..Len(v[1]) |-> "ExecStart=" \o Concat(v[1][k])]

C17_Witness ==
    \E c \in Callers :
        /\ op[c] = "render_exec" /\ pc[c] = "done"
        /\ config.service.exec[1].read_only_paths = <<(<<(<<"a">>), (<<"a">>)>>)>>
        /\ result[c].value = <<"ReadOnlyPaths=a", "ReadOnlyPaths=a">>

\* C18: every boolean field renders as Key=yes when true, Key=no when false, and as
\* no line when unset.
C18_Booleans ==
    \A c \in Callers :
        (op[c] \in RenderOperations /\ pc[c] = "done") =>
            LET s == SectionOf(op[c])
                doc == result[c].value
            IN  \A i \in 1..Len(s.table) :
                    LET e == s.table[i]
                        v == s.rec[e.field]
                    IN  e.ty = "bool" =>
                            /\ v = <<>> =>
                                  (OnlySet(s.rec, e.field) => doc = s.head)
                            /\ v = <<TRUE>> =>
                                  /\ Times(doc, e.key \o "=yes") = 1
                                  /\ Times(doc, e.key \o "=no") = 0
                                  /\ OnlySet(s.rec, e.field) =>
                                        doc = s.head \o <<e.key \o "=yes">>
                            /\ v = <<FALSE>> =>
                                  /\ Times(doc, e.key \o "=no") = 1
                                  /\ Times(doc, e.key \o "=yes") = 0
                                  /\ OnlySet(s.rec, e.field) =>
                                        doc = s.head \o <<e.key \o "=no">>

C18_Witness ==
    \E c \in Callers :
        /\ op[c] = "render_service" /\ pc[c] = "done"
        /\ config.service.remain_after_exit = <<FALSE>>
        /\ result[c].value = <<"[Service]", "RemainAfterExit=no">>

\* the number of '=' in a text
Separators(text) == Cardinality({i \in 1..Len(text) : text[i] = "="})

\* C19, as the specification states it: Exec validate() fails for an environment
\* entry unless the entry holds exactly one '=' and a non-empty key before it.
C19_ExactlyOneSeparator ==
    \A c \in Callers :
        (/\ op[c] = "validate_exec" /\ pc[c] = "done"
         /\ config.service.exec[1].environment # <<>>) =>
            LET env == config.service.exec[1].environment[1]
            IN  (\E k \in 1..Len(env) : Separators(env[k]) # 1 \/ env[k][1] = "=") =>
                    result[c].kind # "Ok"

\* C19, as the code has it: Exec validate() fails for an environment entry that
\* holds no '=' or whose first character is '=' (an empty key); an entry with a
\* non-empty key before its first '=' passes, any further '=' being part of the value.
C19_EnvironmentEntries ==
    \A c \in Callers :
        (/\ op[c] = "validate_exec" /\ pc[c] = "done"
         /\ config.service.exec[1].environment # <<>>) =>
            LET x == config.service.exec[1]
                env == x.environment[1]
                bad == {k \in 1..Len(env) : Separators(env[k]) = 0 \/ env[k][1] = "="}
            IN  /\ bad # {} => result[c].kind = "String"
                /\ OnlySet(x, "environment") => (result[c].kind = "Ok" <=> bad = {})

C19_Witness ==
    \E c \in Callers :
        /\ op[c] = "validate_exec" /\ pc[c] = "done"
        /\ config.service.exec[1].environment = <<(<<(<<"A", "=", "b", "=", "c">>)>>)>>
        /\ OnlySet(config.service.exec[1], "environment")
        /\ result[c].kind = "Ok"

\* C20: Exec validate() with every other field unset succeeds if and only if nice is
\* unset or lies in [-20, 19]: 19 and -20 succeed, 25 and -21 fail.
C20_NiceRange ==
    \A c \in Callers :
        (/\ op[c] = "validate_exec" /\ pc[c] = "done"
         /\ OnlySet(config.service.exec[1], "nice")) =>
            LET nice == config.service.exec[1].nice
            IN  /\ result[c].kind = "Ok" <=> (nice = <<>> \/ (nice[1] >= -20 /\ nice[1] <= 19))
                /\ nice \in {<<19>>, <<-20>>} => result[c].kind = "Ok"
                /\ nice \in {<<25>>, <<-21>>} => result[c].kind = "String"

C20_Witness ==
    \E c \in Callers :
        /\ op[c] = "validate_exec" /\ pc[c] = "done"
        /\ OnlySet(config.service.exec[1], "nice")
        /\ config.service.exec[1].nice = <<25>>
        /\ result[c].kind = "String"

\* a text begins with a prefix, character by character
Begins(text, prefix) ==
    /\ Len(text) >= Len(prefix)
    /\ \A j \in 1..Len(prefix) : text[j] = prefix[j]

\* every token of a list field begins with CAP_ (vacuous for an unset field)
AllPrefixed(field) ==
    field # <<>> => \A k \in 1..Len(field[1]) : Begins(field[1][k], <<"C", "A", "P", "_">>)

\* C21: validate() fails whenever a capability token lacks the CAP_ prefix, in each
\* capability list: Exec capability_bounding_set and ambient_capabilities, Unit
\* condition_capability and assert_capability; with such a list the only field
\* set, validate() succeeds when every token begins with CAP_.
C21_CapabilityPrefix ==
    \A c \in Callers :
        /\ (op[c] = "validate_exec" /\ pc[c] = "done") =>
              LET x == config.service.exec[1]
              IN  \A f \in {"capability_bounding_set", "ambient_capabilities"} :
                      /\ ~AllPrefixed(x[f]) => result[c].kind = "String"
                      /\ (AllPrefixed(x[f]) /\ OnlySet(x, f)) => result[c].kind = "Ok"
        /\ (op[c] = "validate_unit" /\ pc[c] = "done") =>
              LET u == config.unit
              IN  \A f \in {"condition_capability", "assert_capability"} :
                      /\ ~AllPrefixed(u[f]) => result[c].kind = "String"
                      /\ (AllPrefixed(u[f]) /\ OnlySet(u, f)) => result[c].kind = "Ok"

C21_Witness ==
    \E c \in Callers :
        /\ op[c] = "validate_unit" /\ pc[c] = "done"
        /\ config.unit.assert_capability =
               <<(<<(<<"C", "A", "P", "_", "M", "K", "N", "O", "D">>),
                    (<<"M", "K", "N", "O", "D">>)>>)>>
        /\ result[c].kind = "String"

\* a documentation URI of an accepted scheme
ValidUri(uri) ==
    \/ Begins(uri, <<"h", "t", "t", "p", ":", "/", "/">>)
    \/ Begins(uri, <<"h", "t", "t", "p", "s", ":", "/", "/">>)
    \/ Begins(uri, <<"f", "i", "l", "e", ":">>)
    \/ Begins(uri, <<"i", "n", "f", "o", ":">>)
    \/ Begins(uri, <<"m", "a", "n", ":">>)

\* C22: Unit validate() fails if and only if some documentation URI or some
\* capability token is invalid, a URI being valid exactly when it begins with
\* http://, https://, file:, info: or man:; one URI of another scheme in a list
\* is enough to reject it.
C22_DocumentationUris ==
    \A c \in Callers :
        (op[c] = "validate_unit" /\ pc[c] = "done") =>
            LET u == config.unit
                uris == IF u.documentation = <<>> THEN <<>> ELSE u.documentation[1]
            IN  result[c].kind # "Ok" <=>
                    \/ \E k \in 1..Len(uris) : ~ValidUri(uris[k])
                    \/ ~AllPrefixed(u.condition_capability)
                    \/ ~AllPrefixed(u.assert_capability)

C22_Witness ==
    \E c \in Callers :
        /\ op[c] = "validate_unit" /\ pc[c] = "done"
        /\ config.unit.documentation =
               <<(<<(<<"h", "t", "t", "p", "s", ":", "/", "/", "x">>),
                    (<<"f", "t", "p", ":", "/", "/", "x">>)>>)>>
        /\ result[c].kind = "String"

\* C23: validation is never invoked implicitly: install() renders and writes the
\* document of any configuration, valid or not, and goes on to enable and
\* daemon-reload; it returns the 'already exists' error, an I/O error or a command
\* error and nothing else, and succeeds whenever both commands exit zero.
C23_NoImplicitValidation ==
    \A c \in Callers :
        op[c] = "install" =>
            /\ (pc[c] = "done" /\ result[c].kind # "Ok") =>
                   \/ result[c] = [kind |-> "ValidationError", value |-> "exists"]
                          /\ file0[c].exists
                   \/ result[c].kind = "IoError"
                          /\ result[c].value \in {"create", "write", "set_permissions",
                                                  "enable", "daemon-reload"}
                   \/ result[c].kind = "CommandError"
                          /\ \E k \in 1..Len(log[c]) : log[c][k].exit = "nonzero"
            /\ pc[c] \in {"install_chmod", "install_enable", "install_reload"} =>
                   /\ file.content = ConfigDisplay(config)
                   /\ file.content[1] = "[Unit]"
            /\ (/\ pc[c] = "done" /\ Len(log[c]) = 2
                /\ log[c][1].exit = "zero" /\ log[c][2].exit = "zero") =>
                   /\ result[c].kind = "Ok"
                   /\ file.content = ConfigDisplay(config)

C23_Witness ==
    \E c \in Callers :
        /\ op[c] = "install" /\ pc[c] = "done"
        /\ config.unit.documentation = <<(<<(<<"f", "t", "p", ":", "/", "/", "x">>)>>)>>
        /\ config.service.exec # <<>> /\ config.service.exec[1].nice = <<25>>
        /\ result[c].kind = "Ok"
        /\ file.content = <<"[Unit]", "Documentation=ftp://x", "[Service]", "[Install]",
                            "DefaultInstance=a b">>

\* C24: in the Service-trait controller, install(), uninstall(), start(), stop() and
\* restart() return an error whenever a systemctl command they ran exited non-zero,
\* and status() returns an error whenever is-active exited non-zero.
C24_TraitCommandFailures ==
    \A c \in Callers :
        (op[c] \in TraitOperations /\ pc[c] = "done") =>
            /\ (op[c] # "trait_status"
                  /\ \E k \in 1..Len(log[c]) : log[c][k].exit = "nonzero") =>
                   result[c].kind = "ServiceError"
            /\ (op[c] = "trait_status" /\ log[c][1].exit = "nonzero") =>
                   result[c].kind = "ServiceError"

\* the number of invocations of command cmd in the log l of one call
Invocations(l, cmd) == Cardinality({k \in 1..Len(l) : l[k].cmd = cmd})

\* C25: no operation retries.  Within one call install() runs enable at most once
\* and daemon-reload at most once, uninstall() runs disable at most once, a returned
\* start()/stop()/restart() has run exactly one command, a returned status() has run
\* is-active exactly once and list-unit-files at most once; and a command that
\* failed is the last one of its call, which has returned an error.
C25_NoRetry ==
    \A c \in Callers :
        /\ op[c] = "install" =>
              /\ Invocations(log[c], "enable") <= 1
              /\ Invocations(log[c], "daemon-reload") <= 1
        /\ op[c] = "uninstall" => Invocations(log[c], "disable") <= 1
        /\ (op[c] \in {"start", "stop", "restart"} /\ pc[c] = "done") =>
              /\ Len(log[c]) = 1
              /\ log[c][1].cmd = op[c]
        /\ (op[c] = "status" /\ pc[c] = "done") =>
              /\ Invocations(log[c], "is-active") = 1
              /\ Invocations(log[c], "list-unit-files") <= 1
        /\ op[c] \in Operations =>
              \A k \in 1..Len(log[c]) :
                  log[c][k].exit # "zero" =>
                      /\ k = Len(log[c])
                      /\ pc[c] = "done"
                      /\ result[c].kind \in {"IoError", "CommandError"}

\* an install whose enable succeeded and whose only daemon-reload exited non-zero
C25_Witness ==
    /\ op[MainCaller] = "install"
    /\ pc[MainCaller] = "done"
    /\ Len(log[MainCaller]) = 2
    /\ log[MainCaller][1].cmd = "enable"
    /\ log[MainCaller][1].exit = "zero"
    /\ log[MainCaller][2].cmd = "daemon-reload"
    /\ log[MainCaller][2].exit = "nonzero"
    /\ result[MainCaller].kind = "CommandError"

\* C29: status() is read-only: on every path it invokes only is-active and
\* list-unit-files and leaves the unit file as it found it; start(), stop() and
\* restart() never create or delete the unit file.
C29_ReadOnly ==
    \A c \in Callers :
        /\ op[c] = "status" =>
              /\ file = file0[c]
              /\ \A k \in 1..Len(log[c]) :
                     log[c][k].cmd \in {"is-active", "list-unit-files"}
        /\ op[c] \in {"start", "stop", "restart"} =>
              file.exists = file0[c].exists

\* a status() that ran both queries, found the unit not listed, and left a unit
\* file in place
C29_Witness ==
    /\ op[MainCaller] = "status"
    /\ pc[MainCaller] = "done"
    /\ Len(log[MainCaller]) = 2
    /\ result[MainCaller] = Ok("NotInstalled")
    /\ file.exists
    /\ file0[MainCaller].exists

\* the error of install()'s existence check
AlreadyExists == [kind |-> "ValidationError", value |-> "exists"]

\* C26: install()'s existence check and its file creation are separate unguarded
\* steps.  With concurrent install() calls the 'already exists' error is raised by
\* the existence check alone and only when it saw the file: a caller that passed
\* the check goes on to create, write and enable whatever the other caller has
\* done to the file meanwhile.
C26_UnguardedCheck ==
    [][\A c \in Callers :
          (result'[c] = AlreadyExists /\ result[c] # AlreadyExists) =>
              (pc[c] = "install_exists" /\ file.exists /\ log[c] = <<>>)]_vars

\* two concurrent install() calls that began with the file absent have both
\* returned, both after invoking enable, and neither with 'already exists'
C26_Witness ==
    \A c \in Callers :
        /\ op[c] = "install"
        /\ pc[c] = "done"
        /\ ~file0[c].exists
        /\ \E k \in 1..Len(log[c]) : log[c][k].cmd = "enable"
        /\ result[c] # AlreadyExists
        /\ file.exists

\* the unit file as the i-th call of the sequence left it: the entry state of the
\* next call when that has begun, the current file otherwise
FileAfter(i) ==
    IF i < Len(CallOrder) /\ pc[CallOrder[i + 1]] # "idle"
    THEN file0[CallOrder[i + 1]]
    ELSE file

\* the i-th call was an install() that created the file and failed at the enable
\* or the daemon-reload step
Stranded(i) ==
    /\ op[CallOrder[i]] = "install"
    /\ pc[CallOrder[i]] = "done"
    /\ ~file0[CallOrder[i]].exists
    /\ result[CallOrder[i]].kind \in {"IoError", "CommandError"}
    /\ result[CallOrder[i]].value \in {"enable", "daemon-reload"}

\* C27: after an install() that created the unit file but failed at the enable or
\* the daemon-reload step, every later install() returns the 'already exists'
\* error without invoking any command and leaves the file as it is, as long as no
\* uninstall() in between has removed the file.
C27_FailedInstallBlocks ==
    \A i \in 1..Len(CallOrder) : \A j \in 1..Len(CallOrder) :
        (/\ i < j
         /\ Stranded(i)
         /\ op[CallOrder[j]] = "install"
         /\ pc[CallOrder[j]] = "done"
         /\ \A k \in 1..Len(CallOrder) :
                (i < k /\ k < j) =>
                    ~(op[CallOrder[k]] = "uninstall" /\ result[CallOrder[k]].kind = "Ok"))
        => /\ file0[CallOrder[j]].exists
           /\ result[CallOrder[j]] = [kind |-> "ValidationError", value |-> "exists"]
           /\ log[CallOrder[j]] = <<>>
           /\ FileAfter(j) = file0[CallOrder[j]]

\* an install() that failed at daemon-reload, then two more install() calls, both
\* answered 'already exists'
C27_Witness ==
    /\ Stranded(1)
    /\ result[CallOrder[1]].value = "daemon-reload"
    /\ \A j \in {2, 3} :
          /\ op[CallOrder[j]] = "install"
          /\ pc[CallOrder[j]] = "done"
          /\ result[CallOrder[j]].kind = "ValidationError"
          /\ log[CallOrder[j]] = <<>>

\* the i-th call has returned successfully
Succeeded(i) == pc[CallOrder[i]] = "done" /\ result[CallOrder[i]].kind = "Ok"

C30_DistinctKeys ==
    \A c \in Callers :
        (op[c] = "render_exec" /\ pc[c] = "done") =>
            LET x == config.service.exec[1]
                doc == result[c].value
            IN  \A i \in 1..Len(ExecFields) : \A j \in 1..Len(ExecFields) :
                    LET e == ExecFields[i]
                        g == ExecFields[j]
                    IN  (/\ i # j
                         /\ e.rule = g.rule
                         /\ e.ty = g.ty
                         /\ x[e.field] # <<>>
                         /\ OnlySet(x, e.field)
                         /\ doc # <<>>)
                        => /\ e.key # g.key
                           /\ ExecDisplay([DefaultExec EXCEPT ![g.field] = x[e.field]]) # doc

====
